---- MODULE Spec2Model ----
(***************************************************************************)
(* Evaluation engine of diagram2code: node matching, edge projection and   *)
(* per-sample metrics (benchmark/matching.py, benchmark/metrics.py,        *)
(* benchmark/runner.py).                                                   *)
(*                                                                         *)
(* Numbers.  Node ids are Python strings; a string is modelled as the      *)
(* sequence of its digits ("10" is <<1, 0>>) and compared as Python        *)
(* compares strings.  Centers are kept doubled (2*cx, 2*cy) and distances  *)
(* and diagonals squared, so that every quantity is an integer; alpha is a *)
(* rational <<num, den>> with den > 0.  The comparison                     *)
(* d <= alpha * diag is evaluated exactly; on the boxes used here no pair  *)
(* lies exactly on the threshold except at distance 0, so the floating     *)
(* point evaluation of the code agrees with it.  Metric values are exact   *)
(* rationals <<n, d>> in lowest terms.                                     *)
(***************************************************************************)
EXTENDS Integers, Sequences, FiniteSets, TLC

\* One sample: its two graphs and the results of the three calls made on it.
VARIABLES gt_nodes, gt_edges, pred_nodes, pred_edges, alpha,
          pc, err, pred_to_gt, projected_edges, metrics

\* A run of run_benchmark: the dataset directory, the predictor and the
\* arguments of the call, then the locals of the function.  loader is the
\* entry point that reads the directory: load_dataset, or Dataset.from_json_dict
\* for a caller that has parsed dataset.json itself.
VARIABLES disk, loader, predictor, split, limit,
          run_pc, run_err, dataset, per_sample, count, predictor_calls, result

\* A result file: the object handed to write_benchmark_json and the provenance
\* of the command line, the environment and the clock of the process, the
\* output directory tree, the calls of write_benchmark_json made so far and the
\* outcome of the last load_result.
VARIABLES result_obj, extra_run_meta, environ, clock, fs, writes, loaded

\* A registry dataset: its descriptor, its directory in the cache, the last
\* command run on it, the number of calls of fetch_dataset so far and whether
\* one of them has returned.
VARIABLES descriptor, cache, cmd, fetch_count, returned_ok

sampleVars == <<gt_nodes, gt_edges, pred_nodes, pred_edges,
                pc, err, pred_to_gt, projected_edges, metrics>>

runVars == <<disk, loader, predictor, split, limit,
             run_pc, run_err, dataset, per_sample, count, predictor_calls, result>>

ioVars == <<result_obj, extra_run_meta, environ, clock, fs, writes, loaded>>

fetchVars == <<descriptor, cache, cmd, fetch_count, returned_ok>>

vars == <<gt_nodes, gt_edges, pred_nodes, pred_edges, alpha,
          pc, err, pred_to_gt, projected_edges, metrics,
          disk, loader, predictor, split, limit,
          run_pc, run_err, dataset, per_sample, count, predictor_calls, result,
          result_obj, extra_run_meta, environ, clock, fs, writes, loaded,
          descriptor, cache, cmd, fetch_count, returned_ok>>

\* Longest node list and longest edge list given to the engine.
MaxNodes == 2
MaxEdges == 2
\* Longest list of sample results given to _aggregate.
MaxResults == 3
\* Longest list of ids of a split in dataset.json.
MaxSplitIds == 2
\* Most samples of the dataset given to run_benchmark.
MaxSamples == 2

(***************************************************************************)
(* Input universe                                                          *)
(***************************************************************************)
Node(i, b) == [keys |-> {"id", "bbox"}, id |-> i, bbox |-> b]

\* A node dict without an "id" key.
NodeNoId(b) == [keys |-> {"bbox"}, id |-> <<>>, bbox |-> b]

\* The ids "1", "2" and "10".
Ids == {<<1>>, <<2>>, <<1, 0>>}

\* (x, y, w, h): a 2x2 box centered at (1,1) and a 4x2 box centered at (3,1).
BoxA == <<0, 0, 2, 2>>
BoxB == <<1, 0, 4, 2>>
Boxes == {BoxA, BoxB}

\* Three nodes on the same box, so that distances tie, one on the other box,
\* and a node without id.
MatchNodeChoices == {Node(i, BoxA) : i \in Ids}
                        \cup {Node(<<1>>, BoxB), NodeNoId(BoxA)}

\* alpha as <<numerator, denominator>>: -1/4, 0, 1/4, 1/2, 1.
MatchAlphas == {<<0 - 1, 4>>, <<0, 1>>, <<1, 4>>, <<1, 2>>, <<1, 1>>}

\* An edge dict with the keys "from"/"to" or "source"/"target"; a and b are
\* its two endpoint values.
EdgeFromTo(x, y) == [keys |-> {"from", "to"}, a |-> x, b |-> y]
EdgeSourceTarget(x, y) == [keys |-> {"source", "target"}, a |-> x, b |-> y]

\* Ground-truth nodes: two on the same center and one apart.  Predicted
\* nodes: the same boxes under other ids.
RunGtNodeChoices == {Node(<<1>>, BoxA), Node(<<2>>, BoxA), Node(<<2>>, BoxB)}
RunPredNodeChoices == {Node(<<1>>, BoxA), Node(<<2>>, BoxA), Node(<<1>>, BoxB)}
\* Dataset graphs write their edges with "source"/"target".
RunGtEdgeChoices == {EdgeSourceTarget(<<1>>, <<2>>)}
RunPredEdgeChoices == {EdgeFromTo(<<2>>, <<1>>), EdgeFromTo(<<2>>, <<2>>)}
\* 0, 1/2 and 1.
RunAlphas == {<<0, 1>>, <<1, 2>>, <<1, 1>>}

SeqsUpTo(S, n) == UNION {[1..k -> S] : k \in 0..n}

\* Metrics of a sample as compute_metrics returns them; p, r, f are used for
\* nodes and edges alike, rt is the runtime or <<>> for None.
MetricsOf(p, r, f, d, x, rt) ==
    [computed           |-> TRUE,
     node               |-> [precision |-> p, recall |-> r, f1 |-> f],
     edge               |-> [precision |-> r, recall |-> p, f1 |-> f],
     direction_accuracy |-> d,
     exact_match        |-> x,
     runtime_s          |-> rt]

\* A perfect sample, a half-matched one and a failed one without runtime,
\* and two with runtimes of 1/2 s and 3/2 s.
AggregateMetricsChoices ==
    {MetricsOf(<<1, 1>>, <<1, 1>>, <<1, 1>>, <<1, 1>>, TRUE, <<>>),
     MetricsOf(<<1, 2>>, <<1, 1>>, <<2, 3>>, <<0, 1>>, FALSE, <<>>),
     MetricsOf(<<1, 1>>, <<1, 1>>, <<1, 1>>, <<1, 2>>, TRUE, <<1, 2>>),
     MetricsOf(<<0, 1>>, <<0, 1>>, <<0, 1>>, <<0, 1>>, FALSE, <<3, 2>>)}

(***************************************************************************)
(* Python values                                                           *)
(***************************************************************************)
\* str < str: lexicographic by code point, a proper prefix is smaller.
RECURSIVE StrLt(_, _)
StrLt(a, b) ==
    IF a = <<>> THEN b /= <<>>
    ELSE IF b = <<>> THEN FALSE
    ELSE IF Head(a) /= Head(b) THEN Head(a) < Head(b)
    ELSE StrLt(Tail(a), Tail(b))

\* A dict is the sequence of its items in insertion order.
DictHas(d, k) == \E i \in 1..Len(d) : d[i].k = k

\* d[k] = v: an existing key keeps its position and takes the new value.
DictPut(d, k, v) ==
    IF DictHas(d, k)
    THEN [i \in 1..Len(d) |-> IF d[i].k = k THEN [k |-> k, v |-> v] ELSE d[i]]
    ELSE Append(d, [k |-> k, v |-> v])

EmptyMap == [x \in {} |-> x]

AlphaPositive(a) == a[1] > 0

(***************************************************************************)
(* benchmark/matching.py                                                   *)
(***************************************************************************)
\* center doubled, diag squared.
bbox_center_and_diag(bbox) ==
    [center |-> <<2 * bbox[1] + bbox[3], 2 * bbox[2] + bbox[4]>>,
     diag2  |-> bbox[3] * bbox[3] + bbox[4] * bbox[4]]

NodesWellFormed(nodes) ==
    \A i \in 1..Len(nodes) : {"id", "bbox"} \subseteq nodes[i].keys

RECURSIVE BuildGtInfo(_, _)
BuildGtInfo(nodes, acc) ==
    IF nodes = <<>> THEN acc
    ELSE BuildGtInfo(Tail(nodes),
                     DictPut(acc, Head(nodes).id,
                             bbox_center_and_diag(Head(nodes).bbox)))

RECURSIVE BuildPredCenters(_, _)
BuildPredCenters(nodes, acc) ==
    IF nodes = <<>> THEN acc
    ELSE BuildPredCenters(Tail(nodes),
                          DictPut(acc, Head(nodes).id,
                                  bbox_center_and_diag(Head(nodes).bbox).center))

\* hypot(px - gx, py - gy), as four times its square.
Dist2(p, g) == (p[1] - g[1]) * (p[1] - g[1]) + (p[2] - g[2]) * (p[2] - g[2])

WithinThresholdWithoutAlpha(d2, a, gdiag2) == d2 <= 4 * gdiag2

WithinThresholdFlipped(d2, a, gdiag2) ==
    a[2] * a[2] * d2 >= 4 * a[1] * a[1] * gdiag2

\* d <= alpha * gdiag, for alpha = a[1]/a[2] > 0, d = sqrt(d2)/2.
WithinThreshold(d2, a, gdiag2) ==
    a[2] * a[2] * d2 <= 4 * a[1] * a[1] * gdiag2

\* The nested loops over pred_centers.items() and gt_info.items(), from the
\* k-th (pid, gid) combination on.
RECURSIVE CandidatesFrom(_, _, _, _)
CandidatesFrom(pcs, gi, a, k) ==
    IF k >= Len(pcs) * Len(gi) THEN <<>>
    ELSE LET p  == pcs[(k \div Len(gi)) + 1]
             g  == gi[(k % Len(gi)) + 1]
             d2 == Dist2(p.v, g.v.center)
         IN  (IF WithinThreshold(d2, a, g.v.diag2)
              THEN <<[d |-> d2, pid |-> p.k, gid |-> g.k]>>
              ELSE <<>>)
             \o CandidatesFrom(pcs, gi, a, k + 1)

CandidateKeyLessDistanceOnly(x, y) == x.d < y.d

CandidateKeyLessIdsFirst(x, y) ==
    \/ StrLt(x.pid, y.pid)
    \/ x.pid = y.pid /\ StrLt(x.gid, y.gid)
    \/ x.pid = y.pid /\ x.gid = y.gid /\ x.d < y.d

\* (t[0], t[1], t[2]) < (u[0], u[1], u[2])
CandidateKeyLess(x, y) ==
    \/ x.d < y.d
    \/ x.d = y.d /\ StrLt(x.pid, y.pid)
    \/ x.d = y.d /\ x.pid = y.pid /\ StrLt(x.gid, y.gid)

\* list.sort is stable: x goes after every element that is not greater.
InsertSorted(s, x) ==
    LET n == Cardinality({i \in 1..Len(s) : ~CandidateKeyLess(x, s[i])})
    IN  SubSeq(s, 1, n) \o <<x>> \o SubSeq(s, n + 1, Len(s))

RECURSIVE SortCandidates(_)
SortCandidates(c) ==
    IF c = <<>> THEN <<>>
    ELSE InsertSorted(SortCandidates(SubSeq(c, 1, Len(c) - 1)), c[Len(c)])

GreedyAcceptIgnoringUsedGts(c, st) == c.pid \notin st.used_preds

\* not (pid in used_preds or gid in used_gts)
GreedyAccept(c, st) == c.pid \notin st.used_preds /\ c.gid \notin st.used_gts

RECURSIVE Greedy(_, _)
Greedy(cands, st) ==
    IF cands = <<>> THEN st
    ELSE LET c == Head(cands)
         IN  IF GreedyAccept(c, st)
             THEN Greedy(Tail(cands),
                         [map        |-> (c.pid :> c.gid) @@ st.map,
                          used_preds |-> st.used_preds \cup {c.pid},
                          used_gts   |-> st.used_gts \cup {c.gid}])
             ELSE Greedy(Tail(cands), st)

AlphaRejectedNegativeOnly(a) == a[1] < 0

\* alpha <= 0
AlphaRejected(a) == a[1] <= 0

match_nodes_center_distance(gt, pred, a) ==
    IF AlphaRejected(a) \/ ~NodesWellFormed(gt) \/ ~NodesWellFormed(pred)
    THEN [raised |-> TRUE, value |-> EmptyMap]
    ELSE LET gi    == BuildGtInfo(gt, <<>>)
             pcs   == BuildPredCenters(pred, <<>>)
             cands == SortCandidates(CandidatesFrom(pcs, gi, a, 0))
         IN  [raised |-> FALSE,
              value  |-> Greedy(cands, [map |-> EmptyMap, used_preds |-> {},
                                        used_gts |-> {}]).map]

EdgesWellFormed(edges) ==
    \A i \in 1..Len(edges) : {"from", "to"} \subseteq edges[i].keys

EdgeImagePassThrough(e, map) ==
    {<<IF e.a \in DOMAIN map THEN map[e.a] ELSE e.a,
       IF e.b \in DOMAIN map THEN map[e.b] ELSE e.b>>}

\* What one predicted edge adds to out: nothing when pred_to_gt.get() is None
\* for an endpoint.
EdgeImage(e, map) ==
    IF e.a \in DOMAIN map /\ e.b \in DOMAIN map
    THEN {<<map[e.a], map[e.b]>>}
    ELSE {}

project_pred_edges_to_gt(edges, map) ==
    IF ~EdgesWellFormed(edges)
    THEN [raised |-> TRUE, value |-> {}]
    ELSE [raised |-> FALSE,
          value  |-> UNION {EdgeImage(edges[i], map) : i \in 1..Len(edges)}]

(***************************************************************************)
(* benchmark/metrics.py                                                    *)
(***************************************************************************)
RECURSIVE Gcd(_, _)
Gcd(x, y) == IF y = 0 THEN x ELSE Gcd(y, x % y)

\* n / d, d > 0, in lowest terms.
Rat(n, d) == <<n \div Gcd(n, d), d \div Gcd(n, d)>>
RatZero == <<0, 1>>
RatOne == <<1, 1>>
RatAdd(x, y) == Rat(x[1] * y[2] + y[1] * x[2], x[2] * y[2])
RatMul(x, y) == Rat(x[1] * y[1], x[2] * y[2])
RatDiv(x, y) == Rat(x[1] * y[2], x[2] * y[1])

\* f1 as the sum of precision and recall.
prf1_with_f1_as_sum(tp, pred_n, gt_n) ==
    LET precision == IF pred_n > 0 THEN Rat(tp, pred_n) ELSE RatZero
        recall    == IF gt_n > 0 THEN Rat(tp, gt_n) ELSE RatZero
    IN  [precision |-> precision, recall |-> recall,
         f1 |-> RatAdd(precision, recall)]

safe_prf1(tp, pred_n, gt_n) ==
    LET precision == IF pred_n > 0 THEN Rat(tp, pred_n) ELSE RatZero
        recall    == IF gt_n > 0 THEN Rat(tp, gt_n) ELSE RatZero
        f1        == IF RatAdd(precision, recall) = RatZero
                     THEN RatZero
                     ELSE RatDiv(RatMul(<<2, 1>>, RatMul(precision, recall)),
                                 RatAdd(precision, recall))
    IN  [precision |-> precision, recall |-> recall, f1 |-> f1]

compute_node_metrics_swapped(gtn, predn, map) ==
    safe_prf1(Cardinality(DOMAIN map), Len(gtn), Len(predn))

compute_node_metrics(gtn, predn, map) ==
    safe_prf1(Cardinality(DOMAIN map), Len(predn), Len(gtn))

edge_set(edges) == {<<edges[i].a, edges[i].b>> : i \in 1..Len(edges)}

compute_edge_metrics_per_list_entry(gte, proj) ==
    safe_prf1(Cardinality(proj \cap edge_set(gte)), Cardinality(proj), Len(gte))

compute_edge_metrics(gte, proj) ==
    safe_prf1(Cardinality(proj \cap edge_set(gte)),
              Cardinality(proj), Cardinality(edge_set(gte)))

DirectionCountedEveryEdge(e, gt) == TRUE

\* The projected edges the loop adds to denom.
DirectionCounted(e, gt) == e \in gt \/ <<e[2], e[1]>> \in gt

compute_direction_accuracy(gte, proj) ==
    LET gt      == edge_set(gte)
        denom   == Cardinality({e \in proj : DirectionCounted(e, gt)})
        correct == Cardinality({e \in proj : e \in gt})
    IN  IF denom > 0 THEN Rat(correct, denom) ELSE RatZero

NodeExactWithoutCount(gtn, predn, map) ==
    /\ Cardinality(DOMAIN map) = Cardinality({gtn[i].id : i \in 1..Len(gtn)})
    /\ {map[p] : p \in DOMAIN map} = {gtn[i].id : i \in 1..Len(gtn)}

NodeExact(gtn, predn, map) ==
    LET gt_node_ids   == {gtn[i].id : i \in 1..Len(gtn)}
        pred_node_ids == {predn[i].id : i \in 1..Len(predn)}
    IN  /\ Cardinality(pred_node_ids) = Cardinality(gt_node_ids)
        /\ Cardinality(DOMAIN map) = Cardinality(gt_node_ids)
        /\ {map[p] : p \in DOMAIN map} = gt_node_ids

compute_exact_match(gtn, gte, predn, proj, map) ==
    NodeExact(gtn, predn, map) /\ proj = edge_set(gte)

\* runtime_s is None or a rational number of seconds.
None == <<>>

compute_metrics(gtn, gte, predn, proj, map, runtime_s) ==
    [computed           |-> TRUE,
     node               |-> compute_node_metrics(gtn, predn, map),
     edge               |-> compute_edge_metrics(gte, proj),
     direction_accuracy |-> compute_direction_accuracy(gte, proj),
     exact_match        |-> compute_exact_match(gtn, gte, predn, proj, map),
     runtime_s          |-> runtime_s]

(***************************************************************************)
(* benchmark/runner.py                                                     *)
(***************************************************************************)
\* The canonical {"from", "to"} form of a dict edge; an edge with neither
\* pair of keys is returned as it is.
edge_to_dict(e) ==
    IF {"from", "to"} \subseteq e.keys THEN EdgeFromTo(e.a, e.b)
    ELSE IF {"source", "target"} \subseteq e.keys THEN EdgeFromTo(e.a, e.b)
    ELSE e

NormalizedGtEdges(edges) == [i \in 1..Len(edges) |-> edge_to_dict(edges[i])]

SampleResult(image_path, m) == [image_path |-> image_path, metrics |-> m]

RECURSIVE RatSum(_)
RatSum(xs) == IF xs = <<>> THEN RatZero ELSE RatAdd(Head(xs), RatSum(Tail(xs)))

\* The sum of xs, not divided by len(xs).
mean_of_sum(xs) == IF xs = <<>> THEN RatZero ELSE RatSum(xs)

\* sum(xs) / len(xs) if xs else 0.0
mean(xs) == IF xs = <<>> THEN RatZero ELSE RatDiv(RatSum(xs), <<Len(xs), 1>>)

\* ys = [x for x in xs if x is not None]
reported(xs) == SelectSeq(xs, LAMBDA x : x # None)

mean_optional(xs) == IF reported(xs) = <<>> THEN None ELSE mean(reported(xs))

aggregate(samples) ==
    LET node_p(m)  == m.node.precision
        node_r(m)  == m.node.recall
        node_f(m)  == m.node.f1
        edge_p(m)  == m.edge.precision
        edge_r(m)  == m.edge.recall
        edge_f(m)  == m.edge.f1
        dir_acc(m) == m.direction_accuracy
        exact(m)   == IF m.exact_match THEN RatOne ELSE RatZero
        rt(m)      == m.runtime_s
        Field(ss, f(_)) == [i \in 1..Len(ss) |-> f(ss[i].metrics)]
    IN  [node |-> [precision |-> mean(Field(samples, node_p)),
                   recall    |-> mean(Field(samples, node_r)),
                   f1        |-> mean(Field(samples, node_f))],
         edge |-> [precision |-> mean(Field(samples, edge_p)),
                   recall    |-> mean(Field(samples, edge_r)),
                   f1        |-> mean(Field(samples, edge_f))],
         direction_accuracy |-> mean(Field(samples, dir_acc)),
         exact_match_rate   |-> mean(Field(samples, exact)),
         runtime_mean_s     |-> mean_optional(Field(samples, rt))]

BenchmarkResult(samples) == [samples |-> samples, aggregate |-> aggregate(samples)]

(***************************************************************************)
(* datasets/validation.py                                                  *)
(*                                                                         *)
(* The dataset directory is a record: present, the paths among             *)
(* dataset.json, images and graphs that exist; metadata, the content of    *)
(* dataset.json; images and graphs, the files of the two directories.  A   *)
(* file name is a stem and a suffix.  Sample ids are strings of digits,    *)
(* as node ids are.                                                        *)
(***************************************************************************)
DatasetError(kind, what, ids, more_ids) ==
    [type |-> "DatasetError", kind |-> kind, what |-> what,
     ids |-> ids, more_ids |-> more_ids]

\* An exception that is not a DatasetError.
OtherError(type, what) ==
    [type |-> type, kind |-> "", what |-> what, ids |-> <<>>, more_ids |-> <<>>]

NoError == OtherError("none", "")

Raise(e) == [raised |-> TRUE, error |-> e, value |-> None]
Return(v) == [raised |-> FALSE, error |-> NoError, value |-> v]

ALLOWED_IMAGE_EXTS == {".png", ".jpg", ".jpeg", ".webp", ".svg"}

\* str.lower() on the suffixes in use.
Lower(suffix) == IF suffix = ".PNG" THEN ".png" ELSE suffix

\* The longest list of ids an error message prints: xs[:20].
MaxListed == 20

Take(xs, n) == SubSeq(xs, 1, IF Len(xs) < n THEN Len(xs) ELSE n)

\* sorted() of a set of strings.
RECURSIVE Sorted(_)
Sorted(S) ==
    IF S = {} THEN <<>>
    ELSE LET least == CHOOSE x \in S : \A y \in S \ {x} : StrLt(x, y)
         IN  <<least>> \o Sorted(S \ {least})

\* assert_exists raises on a path that does not exist.
MissingPath(d, what) == what \notin d.present

list_image_ids(images) ==
    {f.stem : f \in {g \in images : g.is_file /\ Lower(g.suffix) \in ALLOWED_IMAGE_EXTS}}

list_graph_ids(graphs) ==
    {f.stem : f \in {g \in graphs : g.suffix = ".json" /\ g.is_file}}

PairsMismatchImagesOnly(image_ids, graph_ids) == image_ids \ graph_ids # {}

PairsMismatch(image_ids, graph_ids) == image_ids # graph_ids

\* sorted(ids)[:20]
Listed(ids) == Take(Sorted(ids), MaxListed)

validate_pairs(image_ids, graph_ids) ==
    IF PairsMismatch(image_ids, graph_ids)
    THEN Raise(DatasetError("Image/graph ID mismatch", "",
                            Listed(image_ids \ graph_ids),
                            Listed(graph_ids \ image_ids)))
    ELSE Return(None)

UnknownId(sid, all_ids) == sid \notin all_ids

AlreadySeenNever(sid, seen) == FALSE

AlreadySeen(sid, seen) == sid \in seen

\* The loop over the ids of one split; value is seen after it.
RECURSIVE ValidateIds(_, _, _, _)
ValidateIds(all_ids, split_name, ids, seen) ==
    IF ids = <<>> THEN Return(seen)
    ELSE IF UnknownId(Head(ids), all_ids)
    THEN Raise(DatasetError("references unknown sample_id", split_name,
                            <<Head(ids)>>, <<>>))
    ELSE IF AlreadySeen(Head(ids), seen)
    THEN Raise(DatasetError("Duplicate sample_id across splits", "",
                            <<Head(ids)>>, <<>>))
    ELSE ValidateIds(all_ids, split_name, Tail(ids), seen \cup {Head(ids)})

\* The loop over the splits in the order of the JSON object; tuple(ids)
\* raises TypeError on a value that is not iterable.
RECURSIVE ValidateSplitsFrom(_, _, _, _)
ValidateSplitsFrom(all_ids, splits, seen, out) ==
    IF splits = <<>> THEN Return(out)
    ELSE IF Head(splits).ids.type # "list"
    THEN Raise(OtherError("TypeError", Head(splits).name))
    ELSE LET r == ValidateIds(all_ids, Head(splits).name,
                              Head(splits).ids.items, seen)
         IN  IF r.raised THEN Raise(r.error)
             ELSE ValidateSplitsFrom(all_ids, Tail(splits), r.value,
                     Append(out, [name |-> Head(splits).name,
                                  ids  |-> Head(splits).ids.items]))

validate_splits(all_ids, splits) == ValidateSplitsFrom(all_ids, splits, {}, <<>>)

SUPPORTED_DATASET_SCHEMA_VERSIONS == {"1.0"}

\* The first node that is not acceptable: node.get("id") is not a non-empty
\* string.  0 when every node is acceptable.
FirstBadNode(nodes) ==
    LET bad == {i \in 1..Len(nodes) : "id" \notin nodes[i].keys \/ nodes[i].id = <<>>}
    IN  IF bad = {} THEN 0 ELSE CHOOSE i \in bad : \A j \in bad : i <= j

\* edge.get("source") is a non-empty string, and likewise "target".
ValidSource(e) == "source" \in e.keys /\ e.a # <<>>
ValidTarget(e) == "target" \in e.keys /\ e.b # <<>>

FirstBadEdge(edges) ==
    LET bad == {i \in 1..Len(edges) : ~ValidSource(edges[i]) \/ ~ValidTarget(edges[i])}
    IN  IF bad = {} THEN 0 ELSE CHOOSE i \in bad : \A j \in bad : i <= j

validate_graph_json(content) ==
    IF content.json # "object"
    THEN Raise(DatasetError("Graph must be a JSON object", "graph", <<>>, <<>>))
    ELSE IF "nodes" \notin content.keys \/ "edges" \notin content.keys
    THEN Raise(DatasetError("Graph missing required keys", "graph", <<>>, <<>>))
    ELSE IF content.nodes.type # "list"
    THEN Raise(DatasetError("'nodes' must be a list", "graph", <<>>, <<>>))
    ELSE IF content.edges.type # "list"
    THEN Raise(DatasetError("'edges' must be a list", "graph", <<>>, <<>>))
    ELSE IF FirstBadNode(content.nodes.items) # 0
    THEN Raise(DatasetError("Node missing valid 'id'", "graph", <<>>, <<>>))
    ELSE IF FirstBadEdge(content.edges.items) = 0
    THEN Return(None)
    ELSE IF ~ValidSource(content.edges.items[FirstBadEdge(content.edges.items)])
    THEN Raise(DatasetError("Edge missing valid 'source'", "graph", <<>>, <<>>))
    ELSE Raise(DatasetError("Edge missing valid 'target'", "graph", <<>>, <<>>))

load_and_validate_graph(content) ==
    IF content.json = "invalid"
    THEN Raise(DatasetError("Invalid JSON in graph", "graph", <<>>, <<>>))
    ELSE IF validate_graph_json(content).raised
    THEN validate_graph_json(content)
    ELSE Return(content)

(***************************************************************************)
(* datasets/loader.py and datasets/types.py                                *)
(***************************************************************************)
\* sorted(ALLOWED_IMAGE_EXTS)
SortedImageExts == <<".jpeg", ".jpg", ".png", ".svg", ".webp">>

\* The first of sample_id + ext, in the order of the sorted extensions, that
\* exists in images/.
pick_image_path(images, sample_id) ==
    LET found == {i \in 1..Len(SortedImageExts) :
                     \E f \in images : /\ f.stem = sample_id
                                       /\ f.suffix = SortedImageExts[i]}
    IN  IF found = {}
        THEN Raise(DatasetError("No image found", "images", <<sample_id>>, <<>>))
        ELSE Return([stem   |-> sample_id,
                     suffix |-> SortedImageExts[CHOOSE i \in found :
                                                   \A j \in found : i <= j]])

DictKeys(d) == {d[i].k : i \in 1..Len(d)}

DictGet(d, k) == d[CHOOSE i \in 1..Len(d) : d[i].k = k].v

\* for sid in ids: sample_split[sid] = split_name
RECURSIVE AssignIds(_, _, _)
AssignIds(sample_split, ids, split_name) ==
    IF ids = <<>> THEN sample_split
    ELSE AssignIds(DictPut(sample_split, Head(ids), split_name), Tail(ids),
                   split_name)

RECURSIVE AssignSplits(_, _)
AssignSplits(sample_split, splits) ==
    IF splits = <<>> THEN sample_split
    ELSE AssignSplits(AssignIds(sample_split, Head(splits).ids, Head(splits).name),
                      Tail(splits))

\* sorted(image_ids - set(sample_split.keys()))
Unassigned(image_ids, sample_split) == Sorted(image_ids \ DictKeys(sample_split))

DatasetSample(sample_id, image_path, split_name) ==
    [sample_id |-> sample_id, image_path |-> image_path,
     graph_path |-> [stem |-> sample_id, suffix |-> ".json"], split |-> split_name]

\* The loop that builds the samples, over the sorted ids.
RECURSIVE BuildSamples(_, _, _, _)
BuildSamples(ids, images, sample_split, samples) ==
    IF ids = <<>> THEN Return(samples)
    ELSE LET image == pick_image_path(images, Head(ids))
         IN  IF image.raised THEN Raise(image.error)
             ELSE IF Head(ids) \notin DictKeys(sample_split)
             THEN Raise(OtherError("KeyError", "sample_split"))
             ELSE BuildSamples(Tail(ids), images, sample_split,
                     Append(samples,
                            DatasetSample(Head(ids), image.value,
                                          DictGet(sample_split, Head(ids)))))

Dataset(schema_version, splits, samples) ==
    [metadata |-> [schema_version |-> schema_version, splits |-> splits],
     samples  |-> samples]

\* load_dataset from the listing of the ids on: the splits, the assignment
\* of the samples and the result.
LoadSamples(d, schema_version, image_ids) ==
    LET raw_splits == d.metadata.splits
    IN  IF raw_splits.type \in {"absent", "null"}
        THEN LET splits  == <<[name |-> "all", ids |-> Sorted(image_ids)]>>
                 samples == BuildSamples(Sorted(image_ids), d.images,
                                         AssignSplits(<<>>, splits), <<>>)
             IN  IF samples.raised THEN Raise(samples.error)
                 ELSE Return(Dataset(schema_version, splits, samples.value))
        ELSE IF raw_splits.type # "object"
        THEN Raise(DatasetError("'splits' must be an object", "dataset.json",
                                <<>>, <<>>))
        ELSE LET validated == validate_splits(image_ids, raw_splits.items)
             IN  IF validated.raised THEN Raise(validated.error)
                 ELSE LET sample_split == AssignSplits(<<>>, validated.value)
                          unassigned   == Unassigned(image_ids, sample_split)
                          samples      == BuildSamples(Sorted(image_ids), d.images,
                                                       sample_split, <<>>)
                      IN  IF unassigned # <<>>
                          THEN Raise(DatasetError("Unassigned sample_ids", "",
                                                  Take(unassigned, MaxListed), <<>>))
                          ELSE IF samples.raised THEN Raise(samples.error)
                          ELSE Return(Dataset(schema_version, validated.value,
                                              samples.value))

load_dataset(d) ==
    IF MissingPath(d, "dataset.json")
    THEN Raise(DatasetError("Missing", "dataset.json", <<>>, <<>>))
    ELSE IF MissingPath(d, "images")
    THEN Raise(DatasetError("Missing", "images", <<>>, <<>>))
    ELSE IF MissingPath(d, "graphs")
    THEN Raise(DatasetError("Missing", "graphs", <<>>, <<>>))
    ELSE IF d.metadata.json = "invalid"
    THEN Raise(OtherError("JSONDecodeError", "dataset.json"))
    ELSE IF d.metadata.json # "object"
    THEN Raise(DatasetError("must be a JSON object", "dataset.json", <<>>, <<>>))
    ELSE LET schema_version == IF d.metadata.schema_version.present
                               THEN d.metadata.schema_version.value
                               ELSE "1.0"
             image_ids      == list_image_ids(d.images)
             graph_ids      == list_graph_ids(d.graphs)
             pairs          == validate_pairs(image_ids, graph_ids)
         IN  IF pairs.raised THEN Raise(pairs.error)
             ELSE LoadSamples(d, schema_version, image_ids)

\* Dataset.splits(), as the set of its names.
Dataset_splits(ds) == {ds.metadata.splits[i].name : i \in 1..Len(ds.metadata.splits)}

\* Dataset.samples(split)
Dataset_samples(ds, s) == SelectSeq(ds.samples, LAMBDA x : x.split = s)

\* DatasetSample.load_graph_json on the content of the graph file.
load_graph_json(content) ==
    IF content.json = "invalid" THEN Raise(OtherError("JSONDecodeError", "graph"))
    ELSE IF content.json # "object" THEN Raise(OtherError("ValueError", "graph"))
    ELSE Return(content)

\* What Dataset.from_json_dict keeps of data["splits"] (data.get("splits")
\* or {}): the entries of an object whose value is a list.
NormalizedSplits(raw_splits) ==
    IF raw_splits.type # "object" THEN <<>>
    ELSE LET lists == SelectSeq(raw_splits.items, LAMBDA x : x.ids.type = "list")
         IN  [i \in 1..Len(lists) |-> [name |-> lists[i].name,
                                       ids  |-> lists[i].ids.items]]

\* id_to_split.get(sid, "all")
SplitOrAll(id_to_split, sid) ==
    IF sid \in DictKeys(id_to_split) THEN DictGet(id_to_split, sid) ELSE "all"

\* The paths from_json_dict may take as the image of sid: sid.png when it
\* exists, else any file of images/ with that stem (the first that iterdir
\* yields), else sid.png.
ImageCandidates(images, sid) ==
    IF \E f \in images : f.stem = sid /\ f.suffix = ".png"
    THEN {[stem |-> sid, suffix |-> ".png"]}
    ELSE IF \E f \in images : f.is_file /\ f.stem = sid
    THEN {[stem |-> f.stem, suffix |-> f.suffix] : f \in {g \in images : g.is_file /\ g.stem = sid}}
    ELSE {[stem |-> sid, suffix |-> ".png"]}

\* One image path for each of the sorted ids.
RECURSIVE ImagePathChoices(_, _)
ImagePathChoices(images, ids) ==
    IF ids = <<>> THEN {<<>>}
    ELSE {<<c>> \o rest : c \in ImageCandidates(images, Head(ids)),
                          rest \in ImagePathChoices(images, Tail(ids))}

\* The stems of all the files of images/, whatever their suffix.
AllFileIds(images) == {f.stem : f \in {g \in images : g.is_file}}

\* The first split, in the order of the dict, that lists an id out of
\* all_ids, as <<split name, id>>; <<>> when there is none.
RECURSIVE FirstUnknown(_, _)
FirstUnknown(splits, all_ids) ==
    IF splits = <<>> THEN <<>>
    ELSE LET unknown == SelectSeq(Head(splits).ids, LAMBDA x : x \notin all_ids)
         IN  IF unknown # <<>> THEN <<Head(splits).name, Head(unknown)>>
             ELSE FirstUnknown(Tail(splits), all_ids)

\* The check from_json_dict makes on the graph file of one sample.
GraphCheck(content) ==
    IF load_graph_json(content).raised
    THEN Raise(DatasetError("Invalid JSON", "graph", <<>>, <<>>))
    ELSE IF \/ "nodes" \notin content.keys \/ content.nodes.type # "list"
            \/ "edges" \notin content.keys \/ content.edges.type # "list"
    THEN Raise(DatasetError("Graph missing nodes/edges", "graph", <<>>, <<>>))
    ELSE IF \E i \in 1..Len(content.nodes.items) :
                \/ "id" \notin content.nodes.items[i].keys
                \/ content.nodes.items[i].id = <<>>
    THEN Raise(DatasetError("Graph node missing valid 'id'", "graph", <<>>, <<>>))
    ELSE LET bad == {i \in 1..Len(content.edges.items) :
                        LET e == content.edges.items[i]
                        IN  \/ "source" \notin e.keys \/ e.a = <<>>
                            \/ "target" \notin e.keys \/ e.b = <<>>}
             first == CHOOSE i \in bad : \A j \in bad : i <= j
             e     == content.edges.items[first]
         IN  IF bad = {} THEN Return(None)
             ELSE IF "source" \notin e.keys \/ e.a = <<>>
             THEN Raise(DatasetError("Graph edge missing valid 'source'", "graph",
                                     <<>>, <<>>))
             ELSE Raise(DatasetError("Graph edge missing valid 'target'", "graph",
                                     <<>>, <<>>))

\* The content of the graph file of a sample.
GraphContent(graphs, sid) ==
    (CHOOSE g \in graphs : g.stem = sid /\ g.suffix = ".json" /\ g.is_file).content

\* The first error of the graph checks over the samples in their order.
RECURSIVE CheckGraphs(_, _)
CheckGraphs(graphs, samples) ==
    IF samples = <<>> THEN Return(None)
    ELSE LET r == GraphCheck(GraphContent(graphs, Head(samples).sample_id))
         IN  IF r.raised THEN Raise(DatasetError(r.error.kind, "graph",
                                                 <<Head(samples).sample_id>>, <<>>))
             ELSE CheckGraphs(graphs, Tail(samples))

FirstFive(xs) == Take(xs, 5)

\* schema_version.startswith("1"), on the versions in use.
StartsWithOne(v) == v \in {"1", "1.0", "1.1"}

\* Dataset.from_json_dict(root, data) on a dataset.json without "samples";
\* data is the object of dataset.json and image_paths the image path taken
\* for each of the sorted ids.
from_json_dict(d, image_paths, validate_graphs) ==
    IF ~d.metadata.schema_version.present
    THEN Raise(DatasetError("Missing schema_version", "dataset.json", <<>>, <<>>))
    ELSE IF ~StartsWithOne(d.metadata.schema_version.value)
    THEN Raise(DatasetError("Unsupported schema_version", "dataset.json", <<>>, <<>>))
    ELSE IF MissingPath(d, "images")
    THEN Raise(DatasetError("Missing", "images", <<>>, <<>>))
    ELSE IF MissingPath(d, "graphs")
    THEN Raise(DatasetError("Missing", "graphs", <<>>, <<>>))
    ELSE LET splits    == NormalizedSplits(d.metadata.splits)
             img_ids   == AllFileIds(d.images)
             graph_ids == {f.stem : f \in {g \in d.graphs :
                                              g.is_file /\ g.suffix = ".json"}}
             unknown   == FirstUnknown(splits, img_ids)
             id_to_split == AssignSplits(<<>>, splits)
             ids       == Sorted(img_ids)
             samples   == [i \in 1..Len(ids) |->
                              DatasetSample(ids[i], image_paths[i],
                                            SplitOrAll(id_to_split, ids[i]))]
             checked   == CheckGraphs(d.graphs, samples)
         IN  IF img_ids # graph_ids
             THEN Raise(DatasetError("Image/graph id mismatch", "",
                                     FirstFive(Sorted(img_ids \ graph_ids)),
                                     FirstFive(Sorted(graph_ids \ img_ids))))
             ELSE IF unknown # <<>>
             THEN Raise(DatasetError("contains unknown id", unknown[1],
                                     <<unknown[2]>>, <<>>))
             ELSE IF validate_graphs /\ checked.raised THEN Raise(checked.error)
             ELSE Return(Dataset(d.metadata.schema_version.value, splits, samples))

(***************************************************************************)
(* benchmark/runner.py: run_benchmark                                      *)
(***************************************************************************)
\* The arguments split and limit, None by default.
NoSplitArg == [given |-> FALSE, name |-> ""]
SplitArg(n) == [given |-> TRUE, name |-> n]
NoLimit == [given |-> FALSE, value |-> 0]
Limit(n) == [given |-> TRUE, value |-> n]

\* What the predictor does on an image: it raises, it returns a PredGraph,
\* or it is a SamplePredictorAdapter around a predictor that returns the
\* prediction {"nodes": nodes, "edges": edges}.
PredictorRaises ==
    [raised |-> TRUE, adapter |-> FALSE, nodes |-> <<>>, edges |-> <<>>]
PredGraph(nodes, edges) ==
    [raised |-> FALSE, adapter |-> FALSE, nodes |-> nodes, edges |-> edges]
Adapted(nodes, edges) ==
    [raised |-> FALSE, adapter |-> TRUE, nodes |-> nodes, edges |-> edges]

\* An error whose message prints the edge e.
EdgeError(type, kind, e) ==
    [type |-> type, kind |-> kind, what |-> "edge", ids |-> <<e.a, e.b>>,
     more_ids |-> <<>>]

\* str(None), which is no numeral.
StrNone == <<-1>>

\* {"id": str(n.get("id")), "bbox": list(n.get("bbox", [0, 0, 0, 0]))}
AdaptNode(n) ==
    Node(IF "id" \in n.keys THEN n.id ELSE StrNone,
         IF "bbox" \in n.keys THEN n.bbox ELSE <<0, 0, 0, 0>>)

\* e.get("source", e.get("from")) is None or e.get("target", e.get("to")) is
\* None
MissingEndpoints(e) ==
    \/ ~("source" \in e.keys \/ "from" \in e.keys)
    \/ ~("target" \in e.keys \/ "to" \in e.keys)

\* SamplePredictorAdapter.__call__ on the prediction of the wrapped predictor.
SamplePredictorAdapter(pred) ==
    LET bad == {i \in 1..Len(pred.edges) : MissingEndpoints(pred.edges[i])}
    IN  IF bad # {}
        THEN Raise(EdgeError("ValueError", "Predicted edge missing endpoints",
                             pred.edges[CHOOSE i \in bad : \A j \in bad : i <= j]))
        ELSE Return(PredGraph([i \in 1..Len(pred.nodes) |-> AdaptNode(pred.nodes[i])],
                              [i \in 1..Len(pred.edges) |->
                                  EdgeFromTo(pred.edges[i].a, pred.edges[i].b)]))

\* pred = predictor(image_path)
CallPredictor(p) ==
    IF p.raised THEN Raise(OtherError("PredictorError", "predictor"))
    ELSE IF p.adapter THEN SamplePredictorAdapter(p)
    ELSE Return(p)

\* split = "test" if "test" in dataset.splits() else "all", when split is None
SelectedSplit(ds, split_arg) ==
    IF split_arg.given THEN split_arg.name
    ELSE IF "test" \in Dataset_splits(ds) THEN "test" ELSE "all"

LimitReachedAfter(l, c) == l.given /\ c > l.value

\* limit is not None and count >= limit
LimitReached(l, c) == l.given /\ c >= l.value

Failed(e, called) == [raised |-> TRUE, error |-> e, called |-> called, value |-> None]

\* The body of the loop on one sample: content is the graph file of the
\* sample, prediction what the predictor does on its image.  called tells
\* whether the predictor was invoked; value is the metrics of the sample.
evaluate_sample(content, prediction, a) ==
    IF load_graph_json(content).raised
    THEN Failed(load_graph_json(content).error, FALSE)
    ELSE IF "nodes" \notin content.keys \/ "edges" \notin content.keys
    THEN Failed(OtherError("KeyError", "graph"), FALSE)
    ELSE IF content.nodes.type # "list" \/ content.edges.type # "list"
    THEN Failed(OtherError("TypeError", "graph"), FALSE)
    ELSE IF CallPredictor(prediction).raised
    THEN Failed(CallPredictor(prediction).error, TRUE)
    ELSE LET pred == CallPredictor(prediction).value
             gtn  == content.nodes.items
             gte  == NormalizedGtEdges(content.edges.items)
             m    == match_nodes_center_distance(gtn, pred.nodes, a)
             proj == project_pred_edges_to_gt(pred.edges, m.value)
         IN  IF m.raised THEN Failed(OtherError("MatchingError", "match"), TRUE)
             ELSE IF proj.raised THEN Failed(OtherError("MatchingError", "project"), TRUE)
             ELSE IF ~EdgesWellFormed(gte) THEN Failed(OtherError("KeyError", "score"), TRUE)
             ELSE [raised |-> FALSE, error |-> NoError, called |-> TRUE,
                   value  |-> compute_metrics(gtn, gte, pred.nodes, proj.value,
                                              m.value, None)]

(***************************************************************************)
(* Calls                                                                   *)
(***************************************************************************)
Match ==
    /\ pc = "start"
    /\ LET r == match_nodes_center_distance(gt_nodes, pred_nodes, alpha)
       IN  IF r.raised
           THEN /\ pc' = "raised"
                /\ err' = "MatchingError"
                /\ UNCHANGED pred_to_gt
           ELSE /\ pc' = "matched"
                /\ pred_to_gt' = r.value
                /\ UNCHANGED err
    /\ UNCHANGED <<gt_nodes, gt_edges, pred_nodes, pred_edges, alpha,
                   projected_edges, metrics>>
    /\ UNCHANGED <<runVars, ioVars, fetchVars>>

Project ==
    /\ pc = "matched"
    /\ LET r == project_pred_edges_to_gt(pred_edges, pred_to_gt)
       IN  IF r.raised
           THEN /\ pc' = "raised"
                /\ err' = "MatchingError"
                /\ UNCHANGED projected_edges
           ELSE /\ pc' = "projected"
                /\ projected_edges' = r.value
                /\ UNCHANGED err
    /\ UNCHANGED <<gt_nodes, gt_edges, pred_nodes, pred_edges, alpha,
                   pred_to_gt, metrics>>
    /\ UNCHANGED <<runVars, ioVars, fetchVars>>

\* compute_metrics on the normalized ground truth; _edge_set raises KeyError
\* on an edge that edge_to_dict could not normalize.
Score ==
    /\ pc = "projected"
    /\ IF ~EdgesWellFormed(NormalizedGtEdges(gt_edges))
       THEN /\ pc' = "raised"
            /\ err' = "KeyError"
            /\ UNCHANGED metrics
       ELSE /\ pc' = "scored"
            /\ metrics' = compute_metrics(gt_nodes, NormalizedGtEdges(gt_edges),
                                          pred_nodes, projected_edges, pred_to_gt,
                                          None)
            /\ UNCHANGED err
    /\ UNCHANGED <<gt_nodes, gt_edges, pred_nodes, pred_edges, alpha,
                   pred_to_gt, projected_edges>>
    /\ UNCHANGED <<runVars, ioVars, fetchVars>>

NoMetrics == [computed |-> FALSE]

\* No result file is written or read and no dataset is fetched.
NoIo ==
    /\ result_obj = <<>>
    /\ extra_run_meta = <<>>
    /\ environ = <<>>
    /\ clock = 0
    /\ fs = <<>>
    /\ writes = <<>>
    /\ loaded = <<>>
    /\ descriptor = <<>>
    /\ cache = <<>>
    /\ cmd = <<>>
    /\ fetch_count = 0
    /\ returned_ok = FALSE

\* No run of run_benchmark is under way.
NoRun ==
    /\ disk = None
    /\ loader = "none"
    /\ predictor = None
    /\ split = NoSplitArg
    /\ limit = NoLimit
    /\ run_pc = "none"
    /\ run_err = NoError
    /\ dataset = None
    /\ per_sample = <<>>
    /\ count = 0
    /\ predictor_calls = <<>>
    /\ result = None

\* A direct call of match_nodes_center_distance, as the unit tests make it.
InitMatch ==
    /\ gt_nodes \in SeqsUpTo(MatchNodeChoices, MaxNodes)
    /\ pred_nodes \in SeqsUpTo(MatchNodeChoices, MaxNodes)
    /\ alpha \in MatchAlphas
    /\ gt_edges = <<>>
    /\ pred_edges = <<>>
    /\ pc = "start"
    /\ err = "none"
    /\ pred_to_gt = EmptyMap
    /\ projected_edges = {}
    /\ metrics = NoMetrics
    /\ NoRun
    /\ NoIo

NextMatch == Match

SpecMatch == InitMatch /\ [][NextMatch]_vars

\* One sample of run_benchmark: the ground truth of the sample, the graph the
\* predictor returned for it and the alpha of the run.
Init ==
    /\ gt_nodes \in SeqsUpTo(RunGtNodeChoices, MaxNodes)
    /\ pred_nodes \in SeqsUpTo(RunPredNodeChoices, MaxNodes)
    /\ gt_edges \in SeqsUpTo(RunGtEdgeChoices, MaxEdges)
    /\ pred_edges \in SeqsUpTo(RunPredEdgeChoices, MaxEdges)
    /\ alpha \in RunAlphas
    /\ pc = "start"
    /\ err = "none"
    /\ pred_to_gt = EmptyMap
    /\ projected_edges = {}
    /\ metrics = NoMetrics
    /\ NoRun
    /\ NoIo

Next == Match \/ Project \/ Score

Spec == Init /\ [][Next]_vars

\* The return statement of run_benchmark: the result carries the per-sample
\* list and its aggregate.
Aggregate ==
    /\ run_pc = "collected"
    /\ result' = BenchmarkResult(per_sample)
    /\ run_pc' = "returned"
    /\ UNCHANGED <<disk, loader, predictor, split, limit, run_err, dataset,
                   per_sample, count, predictor_calls>>
    /\ UNCHANGED <<sampleVars, alpha, ioVars, fetchVars>>

NoSample ==
    /\ gt_nodes = <<>>
    /\ gt_edges = <<>>
    /\ pred_nodes = <<>>
    /\ pred_edges = <<>>
    /\ pc = "none"
    /\ err = "none"
    /\ pred_to_gt = EmptyMap
    /\ projected_edges = {}
    /\ metrics = NoMetrics

\* _aggregate called on a list of sample results, some with a runtime.
InitAggregate ==
    /\ per_sample \in SeqsUpTo({SampleResult(<<1>>, m) : m \in AggregateMetricsChoices},
                               MaxResults)
    /\ run_pc = "collected"
    /\ disk = None
    /\ loader = "none"
    /\ predictor = None
    /\ split = NoSplitArg
    /\ limit = NoLimit
    /\ run_err = NoError
    /\ dataset = None
    /\ count = Len(per_sample)
    /\ predictor_calls = <<>>
    /\ result = None
    /\ alpha = <<1, 1>>
    /\ NoSample
    /\ NoIo

NextAggregate == Aggregate

SpecAggregate == InitAggregate /\ [][NextAggregate]_vars

(***************************************************************************)
(* Dataset directories                                                     *)
(***************************************************************************)
Paths == {"dataset.json", "images", "graphs"}

Disk(present, metadata, images, graphs) ==
    [present |-> present, metadata |-> metadata, images |-> images,
     graphs |-> graphs]

\* Values of "schema_version" and of "splits" in dataset.json.
NoVersion == [present |-> FALSE, value |-> ""]
Version(v) == [present |-> TRUE, value |-> v]
NoSplits == [type |-> "absent", items |-> <<>>]
SplitsOfType(t) == [type |-> t, items |-> <<>>]
SplitsObject(items) == [type |-> "object", items |-> items]
IdList(ids) == [type |-> "list", items |-> ids]
NotIterable == [type |-> "number", items |-> <<>>]

\* dataset.json: text that is not JSON, a JSON array, a JSON object.
InvalidMetadata == [json |-> "invalid", schema_version |-> NoVersion, splits |-> NoSplits]
ArrayMetadata == [json |-> "array", schema_version |-> NoVersion, splits |-> NoSplits]
Metadata(schema_version, splits) ==
    [json |-> "object", schema_version |-> schema_version, splits |-> splits]

\* A graph file: text that is not JSON, a JSON array, or a JSON object with
\* the given keys; nodes and edges are a list or a number.
GraphJson(json, keys, nodes, edges) ==
    [json |-> json, keys |-> keys, nodes |-> nodes, edges |-> edges]
JsonList(items) == [type |-> "list", items |-> items]
JsonNumber == [type |-> "number", items |-> <<>>]
Graph(nodes, edges) ==
    GraphJson("object", {"nodes", "edges"}, JsonList(nodes), JsonList(edges))
EmptyGraph == Graph(<<>>, <<>>)

ImageFile(stem, suffix) == [stem |-> stem, suffix |-> suffix, is_file |-> TRUE]
GraphFile(stem, content) ==
    [stem |-> stem, suffix |-> ".json", is_file |-> TRUE, content |-> content]

\* The decimal numeral of n < 100.
IdOf(n) == IF n < 10 THEN <<n>> ELSE <<n \div 10, n % 10>>

\* n well-formed samples with the ids from .. from + n - 1.
ImagesOf(from, n) == {ImageFile(IdOf(k), ".png") : k \in from..(from + n - 1)}
GraphsOf(from, n) == {GraphFile(IdOf(k), EmptyGraph) : k \in from..(from + n - 1)}

\* Which of the three paths exist, with dataset.json not JSON, not an
\* object, or well formed.
LayoutDisks ==
    {Disk(present, metadata, ImagesOf(1, 1), GraphsOf(1, 1)) :
        present \in SUBSET Paths,
        metadata \in {InvalidMetadata, ArrayMetadata, Metadata(Version("1.0"), NoSplits)}}

\* Images with a second suffix, an upper-case suffix and a suffix that is no
\* image; graphs with a file that is no JSON file and a directory.
ImageFileChoices ==
    {ImageFile(<<1>>, ".png"), ImageFile(<<1>>, ".jpg"), ImageFile(<<2>>, ".png"),
     ImageFile(<<2>>, ".PNG"), ImageFile(<<1, 0>>, ".txt")}
GraphFileChoices ==
    {GraphFile(<<1>>, EmptyGraph), GraphFile(<<2>>, EmptyGraph),
     [stem |-> <<1, 0>>, suffix |-> ".txt", is_file |-> TRUE, content |-> EmptyGraph],
     [stem |-> <<1, 0>>, suffix |-> ".json", is_file |-> FALSE, content |-> EmptyGraph]}

PairDisks ==
    {Disk(Paths, Metadata(Version("1.0"), NoSplits), images, graphs) :
        images \in SUBSET ImageFileChoices, graphs \in SUBSET GraphFileChoices}

\* As many ids on one side only as an error message lists, and one more.
ManyDisks ==
    {Disk(Paths, Metadata(Version("1.0"), NoSplits),
          ImagesOf(1, n) \cup ImagesOf(70, 1), GraphsOf(30, m) \cup GraphsOf(70, 1)) :
        n \in {0, MaxListed, MaxListed + 1}, m \in {0, MaxListed, MaxListed + 1}}

\* The id lists of a split: known ids, an unknown id, or no list at all.
SplitIdLists ==
    {IdList(ids) : ids \in SeqsUpTo({<<1>>, <<2>>, <<3>>}, MaxSplitIds)}
        \cup {NotIterable}

SplitsChoices ==
    {SplitsOfType("null"), SplitsOfType("array")}
        \cup {SplitsObject(<<>>)}
        \cup {SplitsObject(<<[name |-> n, ids |-> a]>>) :
                 n \in {"train", "test"}, a \in SplitIdLists}
        \cup {SplitsObject(<<[name |-> n[1], ids |-> a], [name |-> n[2], ids |-> b]>>) :
                 n \in {<<"train", "test">>, <<"test", "train">>},
                 a \in SplitIdLists, b \in SplitIdLists}

SplitDisks ==
    {Disk(Paths, Metadata(Version("1.0"), splits), ImagesOf(1, 2), GraphsOf(1, 2)) :
        splits \in SplitsChoices}

VersionDisks ==
    {Disk(Paths, Metadata(v, NoSplits), ImagesOf(1, n), GraphsOf(1, n)) :
        v \in {NoVersion, Version("1.0"), Version("1.1"), Version("9.9")},
        n \in 0..2}

\* An edge with the key "source" only.
EdgeSourceOnly(x) == [keys |-> {"source"}, a |-> x, b |-> <<>>]

\* Graph files: not JSON, an array, an object without nodes and edges, nodes
\* that are no list, a node without id, a node with the id "", an edge
\* without target, an edge with the legacy keys, and two well-formed graphs.
GraphContentChoices ==
    {GraphJson("invalid", {}, JsonList(<<>>), JsonList(<<>>)),
     GraphJson("array", {}, JsonList(<<>>), JsonList(<<>>)),
     GraphJson("object", {}, JsonList(<<>>), JsonList(<<>>)),
     GraphJson("object", {"nodes", "edges"}, JsonNumber, JsonList(<<>>)),
     Graph(<<NodeNoId(BoxA)>>, <<>>),
     Graph(<<Node(<<>>, BoxA)>>, <<>>),
     Graph(<<Node(<<1>>, BoxA), Node(<<2>>, BoxB)>>, <<EdgeSourceOnly(<<1>>)>>),
     Graph(<<Node(<<1>>, BoxA), Node(<<2>>, BoxB)>>, <<EdgeFromTo(<<1>>, <<2>>)>>),
     Graph(<<Node(<<1>>, BoxA), Node(<<2>>, BoxB)>>, <<EdgeSourceTarget(<<1>>, <<2>>)>>),
     EmptyGraph}

\* Two samples, each with any of the graph files.
GraphDisks ==
    {Disk(Paths, Metadata(Version("1.0"), NoSplits), ImagesOf(1, 2),
          {GraphFile(<<1>>, a), GraphFile(<<2>>, b)}) :
        a \in GraphContentChoices, b \in GraphContentChoices}

LoadDisks ==
    LayoutDisks \cup PairDisks \cup ManyDisks \cup SplitDisks \cup VersionDisks
        \cup GraphDisks

\* dataset = load_dataset(dataset_path)
LoadDataset ==
    /\ run_pc = "start"
    /\ loader = "load_dataset"
    /\ LET r == load_dataset(disk)
       IN  IF r.raised
           THEN /\ run_pc' = "raised"
                /\ run_err' = r.error
                /\ UNCHANGED dataset
           ELSE /\ run_pc' = "loaded"
                /\ dataset' = r.value
                /\ UNCHANGED run_err
    /\ UNCHANGED <<disk, loader, predictor, split, limit, per_sample, count,
                   predictor_calls, result>>
    /\ UNCHANGED <<sampleVars, alpha, ioVars, fetchVars>>

\* dataset = Dataset.from_json_dict(root=root, data=data), data being the
\* object read from dataset.json.
FromJsonDict ==
    /\ run_pc = "start"
    /\ loader = "from_json_dict"
    /\ \E image_paths \in ImagePathChoices(disk.images, Sorted(AllFileIds(disk.images))) :
           LET r == from_json_dict(disk, image_paths, TRUE)
           IN  IF r.raised
               THEN /\ run_pc' = "raised"
                    /\ run_err' = r.error
                    /\ UNCHANGED dataset
               ELSE /\ run_pc' = "loaded"
                    /\ dataset' = r.value
                    /\ UNCHANGED run_err
    /\ UNCHANGED <<disk, loader, predictor, split, limit, per_sample, count,
                   predictor_calls, result>>
    /\ UNCHANGED <<sampleVars, alpha, ioVars, fetchVars>>

\* if split is None: ...; per_sample = []; count = 0
SelectSplit ==
    /\ run_pc = "loaded"
    /\ split' = SplitArg(SelectedSplit(dataset, split))
    /\ per_sample' = <<>>
    /\ count' = 0
    /\ run_pc' = "looping"
    /\ UNCHANGED <<disk, loader, predictor, limit, run_err, dataset,
                   predictor_calls, result>>
    /\ UNCHANGED <<sampleVars, alpha, ioVars, fetchVars>>

\* One iteration of for sample in dataset.samples(split), on the sample
\* after the count already evaluated.
EvaluateSample ==
    /\ run_pc = "looping"
    /\ count < Len(Dataset_samples(dataset, split.name))
    /\ ~LimitReached(limit, count)
    /\ LET sample == Dataset_samples(dataset, split.name)[count + 1]
           r      == evaluate_sample(GraphContent(disk.graphs, sample.sample_id),
                                     predictor[sample.sample_id], alpha)
       IN  /\ predictor_calls' = IF r.called
                                 THEN Append(predictor_calls, sample.sample_id)
                                 ELSE predictor_calls
           /\ IF r.raised
              THEN /\ run_pc' = "raised"
                   /\ run_err' = r.error
                   /\ UNCHANGED <<per_sample, count>>
              ELSE /\ per_sample' = Append(per_sample,
                                           SampleResult(sample.image_path, r.value))
                   /\ count' = count + 1
                   /\ UNCHANGED <<run_pc, run_err>>
    /\ UNCHANGED <<disk, loader, predictor, split, limit, dataset, result>>
    /\ UNCHANGED <<sampleVars, alpha, ioVars, fetchVars>>

\* The loop ends: the samples are exhausted or the limit is reached.
FinishLoop ==
    /\ run_pc = "looping"
    /\ \/ count >= Len(Dataset_samples(dataset, split.name))
       \/ LimitReached(limit, count)
    /\ run_pc' = "collected"
    /\ UNCHANGED <<disk, loader, predictor, split, limit, run_err, dataset,
                   per_sample, count, predictor_calls, result>>
    /\ UNCHANGED <<sampleVars, alpha, ioVars, fetchVars>>

\* The graph file and the prediction of a sample: a prediction that equals
\* the ground truth, one that finds one node only, a predictor that raises,
\* a predicted edge without "to", an edge predicted the wrong way round,
\* node lists that repeat an id on both sides, an adapter around a prediction with
\* "source"/"target" edges and around one whose edge has no target, and the
\* graph files of GraphContentChoices that are not well formed.
TwoNodes == <<Node(<<1>>, BoxA), Node(<<2>>, BoxB)>>
TwoNodeGraph == Graph(TwoNodes, <<EdgeSourceTarget(<<1>>, <<2>>)>>)
ExactPrediction == PredGraph(TwoNodes, <<EdgeFromTo(<<1>>, <<2>>)>>)
Scenario(content, prediction) == [content |-> content, prediction |-> prediction]

GoodScenarios ==
    {Scenario(TwoNodeGraph, ExactPrediction),
     Scenario(TwoNodeGraph, PredGraph(<<Node(<<1>>, BoxA)>>, <<>>))}

Scenarios ==
    GoodScenarios
        \cup {Scenario(TwoNodeGraph, PredictorRaises),
              Scenario(TwoNodeGraph,
                       PredGraph(TwoNodes, <<[keys |-> {"from"}, a |-> <<1>>, b |-> <<>>]>>)),
              Scenario(TwoNodeGraph, PredGraph(TwoNodes, <<EdgeFromTo(<<2>>, <<1>>)>>)),
              Scenario(Graph(<<Node(<<1>>, BoxA), Node(<<1>>, BoxB)>>,
                             <<EdgeSourceTarget(<<1>>, <<1>>)>>),
                       PredGraph(<<Node(<<1>>, BoxA), Node(<<1>>, BoxA), Node(<<2>>, BoxB)>>,
                                 <<EdgeFromTo(<<1>>, <<1>>), EdgeFromTo(<<2>>, <<1>>)>>)),
              Scenario(TwoNodeGraph,
                       Adapted(TwoNodes, <<EdgeSourceTarget(<<1>>, <<2>>)>>)),
              Scenario(TwoNodeGraph,
                       Adapted(TwoNodes, <<EdgeSourceTarget(<<1>>, <<2>>),
                                           EdgeSourceOnly(<<2>>)>>))}
        \cup {Scenario(c, ExactPrediction) :
                 c \in {g \in GraphContentChoices : g # EmptyGraph /\ g # TwoNodeGraph}}

\* The splits of dataset.json for n samples: none, all the samples in
\* "test", the first in "train" and the others in "test", or a "test" that
\* lists an id without files, which load_dataset rejects.
SplitLayouts(n) ==
    {NoSplits,
     SplitsObject(<<[name |-> "test", ids |-> IdList(<<IdOf(n + 1)>>)]>>),
     SplitsObject(<<[name |-> "test", ids |-> IdList([k \in 1..n |-> IdOf(k)])]>>),
     SplitsObject(<<[name |-> "train",
                     ids  |-> IdList([k \in 1..(IF n = 0 THEN 0 ELSE 1) |-> IdOf(k)])],
                    [name |-> "test",
                     ids  |-> IdList([k \in 1..(IF n = 0 THEN 0 ELSE n - 1) |-> IdOf(k + 1)])]>>)}

RunDisk(n, scenario, splits) ==
    Disk(Paths, Metadata(Version("1.0"), splits), ImagesOf(1, n),
         {GraphFile(IdOf(k), scenario[k].content) : k \in 1..n})

RunPredictor(n, scenario) ==
    [sid \in {IdOf(k) : k \in 1..n} |->
        scenario[CHOOSE k \in 1..n : IdOf(k) = sid].prediction]

Limits == {NoLimit} \cup {Limit(k) : k \in 0..MaxSamples}

\* run_benchmark on a dataset of up to MaxSamples samples: either any
\* scenario on each sample, without splits and with alpha 1, or well-formed
\* samples under every layout of splits, split argument and alpha 1 or 0.
InitRun ==
    /\ \E n \in 0..MaxSamples :
           \/ \E scenario \in [1..n -> Scenarios] :
                  /\ disk = RunDisk(n, scenario, NoSplits)
                  /\ predictor = RunPredictor(n, scenario)
                  /\ split = NoSplitArg
                  /\ alpha = <<1, 1>>
           \/ \E scenario \in [1..n -> GoodScenarios] :
                  /\ disk \in {RunDisk(n, scenario, splits) : splits \in SplitLayouts(n)}
                  /\ predictor = RunPredictor(n, scenario)
                  /\ split \in {NoSplitArg, SplitArg("train"), SplitArg("test"),
                                SplitArg("all")}
                  /\ alpha \in {<<1, 1>>, <<0, 1>>}
    /\ limit \in Limits
    /\ loader = "load_dataset"
    /\ run_pc = "start"
    /\ run_err = NoError
    /\ dataset = None
    /\ per_sample = <<>>
    /\ count = 0
    /\ predictor_calls = <<>>
    /\ result = None
    /\ NoSample
    /\ NoIo

NextRun == LoadDataset \/ SelectSplit \/ EvaluateSample \/ FinishLoop \/ Aggregate

SpecRun == InitRun /\ [][NextRun]_vars

\* load_dataset called on a dataset directory, as the loader's tests call it.
InitLoad ==
    /\ disk \in LoadDisks
    /\ loader \in {"load_dataset", "from_json_dict"}
    /\ loader = "from_json_dict" =>
           "dataset.json" \in disk.present /\ disk.metadata.json = "object"
    /\ predictor = None
    /\ split = NoSplitArg
    /\ limit = NoLimit
    /\ run_pc = "start"
    /\ run_err = NoError
    /\ dataset = None
    /\ per_sample = <<>>
    /\ count = 0
    /\ predictor_calls = <<>>
    /\ result = None
    /\ alpha = <<1, 1>>
    /\ NoSample
    /\ NoIo

NextLoad == LoadDataset \/ FromJsonDict

SpecLoad == InitLoad /\ [][NextLoad]_vars

(***************************************************************************)
(* benchmark/result_schema.py, benchmark/serialize.py,                     *)
(* benchmark/leaderboard.py                                                *)
(*                                                                         *)
(* A Python value is a record [t, s, n, items]: t names its type, s is the *)
(* text of a str or a Path, n the value of an int or a float as a          *)
(* rational, items the items of a dict or the attributes of an object, in  *)
(* insertion order.  A float NaN has a type of its own.  A JSON text is    *)
(* the sequence of its tokens; the white space json.dumps puts between     *)
(* them is a function of the tokens and is left out, the newline that      *)
(* write_benchmark_json appends is a token.                                *)
(***************************************************************************)
PyVal(t, s, n, items) == [t |-> t, s |-> s, n |-> n, items |-> items]
PyNone == PyVal("none", "", RatZero, <<>>)
PyStr(s) == PyVal("str", s, RatZero, <<>>)
PyInt(k) == PyVal("int", "", <<k, 1>>, <<>>)
PyFloat(x) == PyVal("float", "", x, <<>>)
PyNaN == PyVal("nan", "", RatZero, <<>>)
PyPath(s) == PyVal("path", s, RatZero, <<>>)
PyDict(items) == PyVal("dict", "", RatZero, items)
PyList(n) == PyVal("list", "", <<n, 1>>, <<>>)
PyObject(attrs) == PyVal("object", "", RatZero, attrs)
Item(k, v) == [k |-> k, v |-> v]

SCHEMA_VERSION == "1"

\* The dataclass BenchmarkResult of result_schema.py.
ResultRecord(schema_version, dataset_id, split_name, predictor_name, num_samples, m, run) ==
    [schema_version |-> schema_version, dataset |-> dataset_id,
     split |-> split_name, predictor |-> predictor_name,
     num_samples |-> num_samples, metrics |-> m, run |-> run]

\* asdict: the fields in the order of their declaration.
to_dict(r) ==
    PyDict(<<Item("schema_version", r.schema_version), Item("dataset", r.dataset),
             Item("split", r.split), Item("predictor", r.predictor),
             Item("num_samples", r.num_samples), Item("metrics", r.metrics),
             Item("run", r.run)>>)

\* num_samples < 0 is a TypeError when num_samples is not a number.
\* A validate that accepts every record.
validate_accepting_all(r) == Return(r)

validate(r) ==
    IF r.schema_version # PyStr(SCHEMA_VERSION)
    THEN Raise(OtherError("ValueError", "schema_version"))
    ELSE IF r.num_samples.t \notin {"int", "float"}
    THEN Raise(OtherError("TypeError", "num_samples"))
    ELSE IF r.num_samples.n[1] < 0
    THEN Raise(OtherError("ValueError", "num_samples"))
    ELSE Return(r)

\* The values met here are str, int, float, None and Path; dict values are
\* sanitized item by item, the keys being str already.
RECURSIVE sanitize_for_json(_)
sanitize_for_json(obj) ==
    IF obj.t \in {"none", "str", "int", "float", "nan"} THEN obj
    ELSE IF obj.t = "path" THEN PyStr(obj.s)
    ELSE IF obj.t = "dict"
    THEN PyDict([i \in 1..Len(obj.items) |->
                     Item(obj.items[i].k, sanitize_for_json(obj.items[i].v))])
    ELSE PyStr("object")

\* What the process reports about itself; the same in every call of one
\* environment.
diagram2code_version == PyStr("0.1.0")
git_sha_short == PyStr("abc1234")
python_version == PyStr("3.11.4")
platform_name == PyStr("Linux-x86_64")

\* datetime.now(timezone.utc) to the second, in ISO format with a Z.
ClockText(c) == "1970-01-01T00:00:0" \o ToString(c) \o "Z"

EnvUnset == [set |-> FALSE, value |-> ""]
EnvSet(v) == [set |-> TRUE, value |-> v]

\* A timestamp that is read from the clock whatever the environment says.
now_utc_iso_from_clock(env, c) == PyStr(ClockText(c))

\* forced is None when the variable is unset; None and "" are both falsy.
now_utc_iso(env, c) ==
    IF env.set /\ env.value # "" THEN PyStr(env.value) ELSE PyStr(ClockText(c))

\* float(x), NaN when float raises; the strings met here are not numerals.
safe_float(x) ==
    IF x.t \in {"int", "float"} THEN PyFloat(x.n)
    ELSE PyNaN

\* hasattr/getattr on the names in turn; an attribute that is None is found.
RECURSIVE get_attr_any(_, _)
get_attr_any(obj, names) ==
    IF names = <<>> THEN PyNone
    ELSE IF DictHas(obj.items, Head(names)) THEN DictGet(obj.items, Head(names))
    ELSE get_attr_any(obj, Tail(names))

\* str(x) of a str, a Path or an int.
Str(x) == IF x.t = "int" THEN PyStr(ToString(x.n[1])) ELSE PyStr(x.s)

StrOrUnknown(x) == IF x # PyNone THEN Str(x) ELSE PyStr("unknown")

\* d.get(k): None for a missing key.
Get(d, k) == IF DictHas(d.items, k) THEN DictGet(d.items, k) ELSE PyNone

\* if extra_run_meta: None and the empty dict are falsy.
Truthy(d) == d # PyNone /\ d.items # <<>>

\* extra_run_meta[k] replaces the identifier when it is given and not None.
Preferred(extra, k, otherwise) ==
    IF Truthy(extra) /\ Get(extra, k) # PyNone THEN Str(Get(extra, k)) ELSE otherwise

\* int(x): truncation of a float, ValueError for a str that is no numeral,
\* TypeError for an object that is no number.
IntOf(x) ==
    IF x.t = "int" THEN Return(x)
    ELSE IF x.t = "float"
    THEN Return(PyInt(IF x.n[1] >= 0 THEN x.n[1] \div x.n[2]
                      ELSE 0 - ((0 - x.n[1]) \div x.n[2])))
    ELSE IF x.t = "str" THEN Raise(OtherError("ValueError", "num_samples"))
    ELSE Raise(OtherError("TypeError", "num_samples"))

\* The num_samples attribute, else the length of samples or per_sample, else 0.
NumSamples(obj) ==
    LET num_samples == get_attr_any(obj, <<"num_samples">>)
        samples     == get_attr_any(obj, <<"samples", "per_sample">>)
    IN  IF num_samples # PyNone THEN num_samples
        ELSE IF samples # PyNone THEN PyInt(samples.n[1])
        ELSE PyInt(0)

PutPRF1(d, prefix, m) ==
    IF m = PyNone THEN d
    ELSE DictPut(DictPut(DictPut(d,
             prefix \o "_precision", safe_float(get_attr_any(m, <<"precision">>))),
             prefix \o "_recall", safe_float(get_attr_any(m, <<"recall">>))),
             prefix \o "_f1", safe_float(get_attr_any(m, <<"f1">>)))

\* The flat metrics mapping; empty when the object has no aggregate.
FlatMetrics(obj) ==
    LET agg     == get_attr_any(obj, <<"aggregate">>)
        node    == get_attr_any(agg, <<"node">>)
        edge    == get_attr_any(agg, <<"edge">>)
        runtime == get_attr_any(agg, <<"runtime_mean_s">>)
        prf     == PutPRF1(PutPRF1(<<>>, "node", node), "edge", edge)
        rates   == DictPut(DictPut(prf,
                       "direction_accuracy",
                       safe_float(get_attr_any(agg, <<"direction_accuracy">>))),
                       "exact_match_rate",
                       safe_float(get_attr_any(agg, <<"exact_match_rate">>)))
    IN  IF agg = PyNone THEN PyDict(<<>>)
        ELSE IF runtime = PyNone THEN PyDict(rates)
        ELSE PyDict(DictPut(rates, "runtime_mean_s", safe_float(runtime)))

\* The names of the keys that occur, in the order str comparison puts them.
KeyNames ==
    <<"cli", "dataset", "dataset_manifest_sha256", "dataset_ref", "dataset_root",
      "diagram2code_version", "direction_accuracy", "edge_f1", "edge_precision",
      "edge_recall", "exact_match_rate", "git_sha", "metrics", "node_f1",
      "node_precision", "node_recall", "num_samples", "platform", "predictor",
      "predictor_out", "python", "run", "runtime_mean_s", "schema_version",
      "split", "timestamp_utc">>

KeyRank(k) == CHOOSE i \in 1..Len(KeyNames) : KeyNames[i] = k

\* The items of a dict in the sorted order of their keys.
RECURSIVE ItemsFromRank(_, _)
ItemsFromRank(items, rank) ==
    IF rank > Len(KeyNames) THEN <<>>
    ELSE SelectSeq(items, LAMBDA x : x.k = KeyNames[rank])
             \o ItemsFromRank(items, rank + 1)

SortedItems(items) == ItemsFromRank(items, 1)

\* for k in sorted(extra_run_meta.keys()): run[k] = v unless v is None
RECURSIVE MergeExtra(_, _)
MergeExtra(run, items) ==
    IF items = <<>> THEN run
    ELSE MergeExtra(IF Head(items).v # PyNone
                    THEN DictPut(run, Head(items).k, Head(items).v) ELSE run,
                    Tail(items))

RunBlock(extra, env, c) ==
    LET run == <<Item("timestamp_utc", now_utc_iso(env, c)),
                 Item("diagram2code_version", diagram2code_version),
                 Item("git_sha", git_sha_short),
                 Item("python", python_version),
                 Item("platform", platform_name)>>
    IN  PyDict(IF Truthy(extra) THEN MergeExtra(run, SortedItems(extra.items)) ELSE run)

Token(t, s, n) == [t |-> t, s |-> s, n |-> n]
Punct(t) == Token(t, "", RatZero)
Newline == Punct("newline")

\* json.dumps(v, sort_keys=True) of a sanitized value.
RECURSIVE dumps(_), DumpItems(_)
dumps(v) ==
    IF v.t = "none" THEN <<Punct("null")>>
    ELSE IF v.t = "str" THEN <<Token("string", v.s, RatZero)>>
    ELSE IF v.t = "int" THEN <<Token("int", "", v.n)>>
    ELSE IF v.t = "float" THEN <<Token("float", "", v.n)>>
    ELSE IF v.t = "nan" THEN <<Punct("NaN")>>
    ELSE <<Punct("{")>> \o DumpItems(SortedItems(v.items)) \o <<Punct("}")>>

DumpItems(items) ==
    IF items = <<>> THEN <<>>
    ELSE <<Token("key", Head(items).k, RatZero)>> \o dumps(Head(items).v)
             \o DumpItems(Tail(items))

\* The outcome of a call: the record that was validated, the text that was
\* written, and whether the call got as far as creating the directory.
WriteRaised(e) ==
    [raised |-> TRUE, error |-> e, out |-> None, text |-> <<>>, mkdir |-> FALSE]

Written(out, text) ==
    [raised |-> FALSE, error |-> NoError, out |-> out, text |-> text, mkdir |-> TRUE]

write_benchmark_json(obj, extra, env, c) ==
    LET dataset_id   == get_attr_any(obj, <<"dataset", "dataset_ref",
                                            "dataset_path", "dataset_root">>)
        split_name   == get_attr_any(obj, <<"split">>)
        predictor_id == get_attr_any(obj, <<"predictor", "predictor_name">>)
        num_samples  == IntOf(NumSamples(obj))
        out == ResultRecord(PyStr(SCHEMA_VERSION),
                            Preferred(extra, "dataset_ref", StrOrUnknown(dataset_id)),
                            Preferred(extra, "split", StrOrUnknown(split_name)),
                            Preferred(extra, "predictor", StrOrUnknown(predictor_id)),
                            num_samples.value,
                            FlatMetrics(obj),
                            sanitize_for_json(RunBlock(extra, env, c)))
    IN  IF num_samples.raised THEN WriteRaised(num_samples.error)
        ELSE IF validate(out).raised THEN WriteRaised(validate(out).error)
        ELSE Written(out, dumps(to_dict(out)) \o <<Newline>>)

\* json.loads: the value of the text, or a failure to decode it.
Parsed(v, next) == [ok |-> TRUE, v |-> v, next |-> next]
NotParsed == [ok |-> FALSE, v |-> PyNone, next |-> 0]

RECURSIVE ParseValue(_, _), ParseMembers(_, _, _)
ParseValue(text, i) ==
    IF i > Len(text) THEN NotParsed
    ELSE IF text[i].t = "null" THEN Parsed(PyNone, i + 1)
    ELSE IF text[i].t = "string" THEN Parsed(PyStr(text[i].s), i + 1)
    ELSE IF text[i].t = "int" THEN Parsed(PyInt(text[i].n[1]), i + 1)
    ELSE IF text[i].t = "float" THEN Parsed(PyFloat(text[i].n), i + 1)
    ELSE IF text[i].t = "NaN" THEN Parsed(PyNaN, i + 1)
    ELSE IF text[i].t = "{" THEN ParseMembers(text, i + 1, <<>>)
    ELSE NotParsed

ParseMembers(text, i, items) ==
    IF i > Len(text) THEN NotParsed
    ELSE IF text[i].t = "}" THEN Parsed(PyDict(items), i + 1)
    ELSE IF text[i].t # "key" THEN NotParsed
    ELSE LET member == ParseValue(text, i + 1)
         IN  IF ~member.ok THEN NotParsed
             ELSE ParseMembers(text, member.next, DictPut(items, text[i].s, member.v))

loads(text) ==
    LET parsed == ParseValue(text, 1)
        rest   == IF parsed.ok THEN SubSeq(text, parsed.next, Len(text)) ELSE <<>>
    IN  IF parsed.ok /\ \A i \in 1..Len(rest) : rest[i] = Newline
        THEN Return(parsed.v)
        ELSE Raise(OtherError("JSONDecodeError", "text"))

RequiredKeys ==
    {"schema_version", "dataset", "split", "predictor", "num_samples", "metrics"}

SetDefault(d, k, v) == IF DictHas(d, k) THEN d ELSE DictPut(d, k, v)

\* A coercion that empties the metrics mapping.
coerce_result_dict_without_metrics(raw) ==
    DictPut(SetDefault(DictPut(raw, "metrics", PyDict(<<>>)),
                       "schema_version", PyStr(SCHEMA_VERSION)),
            "run", PyDict(<<>>))

coerce_result_dict(raw) ==
    SetDefault(SetDefault(SetDefault(raw,
        "schema_version", PyStr(SCHEMA_VERSION)),
        "metrics", PyDict(<<>>)),
        "run", PyDict(<<>>))

ResultFields ==
    {"schema_version", "dataset", "split", "predictor", "num_samples", "metrics", "run"}

File(text) == [exists |-> TRUE, text |-> text]
NoFile == [exists |-> FALSE, text |-> <<>>]

\* load_result on the file at a path.
load_result(file) ==
    LET raw  == loads(file.text)
        data == coerce_result_dict(raw.value.items)
        r    == ResultRecord(DictGet(data, "schema_version"), DictGet(data, "dataset"),
                             DictGet(data, "split"), DictGet(data, "predictor"),
                             DictGet(data, "num_samples"), DictGet(data, "metrics"),
                             DictGet(data, "run"))
    IN  IF ~file.exists THEN Raise(OtherError("FileNotFoundError", "path"))
        ELSE IF raw.raised THEN raw
        ELSE IF raw.value.t # "dict" THEN Raise(OtherError("ValueError", "object"))
        ELSE IF ~(RequiredKeys \subseteq DictKeys(raw.value.items))
        THEN Raise(OtherError("ValueError", "missing"))
        ELSE IF ~(DictKeys(data) \subseteq ResultFields)
        THEN Raise(OtherError("TypeError", "keyword"))
        ELSE validate(r)

\* The directory of each output path; the working directory exists.
OutputPaths == {"results/r1.json", "r2.json"}
Parent(path) == IF path = "results/r1.json" THEN "results" ELSE "."

\* Ticks of the clock in one behaviour.
MaxClock == 1

\* write_benchmark_json(result, path, extra_run_meta=...): the directory is
\* made and the text written only by a call that got past validate.  Each
\* run names an output path of its own.
WriteBenchmarkJson ==
    /\ \E path \in OutputPaths,
          call \in {write_benchmark_json(result_obj, extra_run_meta, environ, clock)} :
               /\ \A k \in 1..Len(writes) : writes[k].path # path
               /\ fs' = [dirs  |-> IF call.mkdir THEN fs.dirs \cup {Parent(path)}
                                   ELSE fs.dirs,
                         files |-> IF call.raised THEN fs.files
                                   ELSE [fs.files EXCEPT ![path] = File(call.text)]]
               /\ writes' = Append(writes, [path |-> path, before |-> fs,
                                            clock |-> clock, raised |-> call.raised,
                                            error |-> call.error, out |-> call.out,
                                            text |-> call.text])
    /\ UNCHANGED <<result_obj, extra_run_meta, environ, clock, loaded>>
    /\ UNCHANGED <<sampleVars, alpha, runVars, fetchVars>>

\* load_result(path); written tells how many calls of write_benchmark_json
\* came before the read.
LoadResult ==
    /\ \E path \in OutputPaths :
           loaded' = [path |-> path, written |-> Len(writes),
                      outcome |-> load_result(fs.files[path])]
    /\ UNCHANGED <<result_obj, extra_run_meta, environ, clock, fs, writes>>
    /\ UNCHANGED <<sampleVars, alpha, runVars, fetchVars>>

\* A second passes; the seconds after the last run are not followed.
Tick ==
    /\ clock < MaxClock
    /\ \E path \in OutputPaths : \A k \in 1..Len(writes) : writes[k].path # path
    /\ clock' = clock + 1
    /\ UNCHANGED <<result_obj, extra_run_meta, environ, fs, writes, loaded>>
    /\ UNCHANGED <<sampleVars, alpha, runVars, fetchVars>>

\* The result of a run: samples and an aggregate of floats.
PRF1Object(p, r, f) ==
    PyObject(<<Item("precision", PyFloat(p)), Item("recall", PyFloat(r)),
               Item("f1", PyFloat(f))>>)

AggregateObject(node, edge, dir_acc, exact_rate, runtime) ==
    PyObject(<<Item("node", node), Item("edge", edge),
               Item("direction_accuracy", dir_acc),
               Item("exact_match_rate", exact_rate),
               Item("runtime_mean_s", runtime)>>)

RunAggregate ==
    AggregateObject(PRF1Object(<<1, 1>>, <<1, 2>>, <<2, 3>>),
                    PRF1Object(<<1, 2>>, <<1, 2>>, <<1, 2>>),
                    PyFloat(<<1, 2>>), PyFloat(<<0, 1>>), PyNone)

\* The objects handed to write_benchmark_json: the result of run_benchmark,
\* the same with a mean runtime, with an integer rate and no direction
\* accuracy, with an aggregate that has no node block, an object that has
\* identifiers and a sample count but no aggregate, and results whose
\* num_samples is negative, a float, or not a number.
ResultObjects ==
    {PyObject(<<Item("samples", PyList(2)), Item("aggregate", RunAggregate)>>),
     PyObject(<<Item("per_sample", PyList(1)),
                Item("aggregate",
                     AggregateObject(PRF1Object(<<1, 1>>, <<1, 1>>, <<1, 1>>),
                                     PRF1Object(<<0, 1>>, <<0, 1>>, <<0, 1>>),
                                     PyFloat(<<1, 1>>), PyFloat(<<1, 1>>),
                                     PyFloat(<<3, 2>>)))>>),
     PyObject(<<Item("dataset_path", PyPath("data/minimal")), Item("num_samples", PyInt(1)),
                Item("aggregate",
                     AggregateObject(PRF1Object(<<1, 1>>, <<1, 1>>, <<1, 1>>),
                                     PRF1Object(<<1, 1>>, <<1, 1>>, <<1, 1>>),
                                     PyNone, PyInt(1), PyNone))>>),
     PyObject(<<Item("samples", PyList(2)),
                Item("aggregate",
                     AggregateObject(PyNone, PRF1Object(<<1, 2>>, <<1, 2>>, <<1, 2>>),
                                     PyFloat(<<1, 2>>), PyFloat(<<0, 1>>), PyNone))>>),
     PyObject(<<Item("dataset", PyStr("minimal_v1")), Item("split", PyStr("test")),
                Item("predictor_name", PyStr("oracle")), Item("num_samples", PyInt(3))>>),
     PyObject(<<Item("num_samples", PyInt(0 - 1)), Item("aggregate", RunAggregate)>>),
     PyObject(<<Item("num_samples", PyFloat(<<0 - 1, 2>>)), Item("aggregate", RunAggregate)>>),
     PyObject(<<Item("num_samples", PyStr("many")), Item("aggregate", RunAggregate)>>)}

\* The provenance the benchmark command passes, with and without a split, a
\* predictor output directory and a manifest hash; or none at all.
ExtraRunMetas ==
    {PyNone,
     PyDict(<<Item("cli", PyStr("diagram2code benchmark")),
              Item("dataset_ref", PyStr("example:minimal_v1")),
              Item("dataset_root", PyStr("data/minimal")),
              Item("predictor", PyStr("oracle")),
              Item("split", PyNone),
              Item("predictor_out", PyNone)>>),
     PyDict(<<Item("cli", PyStr("diagram2code benchmark")),
              Item("dataset_ref", PyStr("tiny_remote_v1")),
              Item("dataset_root", PyStr("cache/tiny_remote_v1")),
              Item("predictor", PyStr("heuristic")),
              Item("split", PyStr("test")),
              Item("predictor_out", PyPath("out")),
              Item("dataset_manifest_sha256", PyStr("5f2b"))>>)}

\* What may lie at an output path beforehand: nothing, the result file of an
\* earlier run, a result file of another schema version, or a truncated text.
OldFiles ==
    {NoFile,
     File(dumps(to_dict(ResultRecord(PyStr(SCHEMA_VERSION), PyStr("old"), PyStr("all"),
                                     PyStr("oracle"), PyInt(1),
                                     PyDict(<<Item("node_f1", PyFloat(<<1, 1>>))>>),
                                     PyDict(<<>>)))) \o <<Newline>>),
     File(<<Punct("{"), Token("key", "schema_version", RatZero),
            Token("string", "2", RatZero), Token("key", "dataset", RatZero),
            Token("string", "old", RatZero), Token("key", "split", RatZero),
            Token("string", "all", RatZero), Token("key", "predictor", RatZero),
            Token("string", "oracle", RatZero), Token("key", "num_samples", RatZero),
            Token("int", "", <<1, 1>>), Token("key", "metrics", RatZero),
            Punct("{"), Punct("}"), Punct("}"), Newline>>),
     File(<<Punct("{"), Token("key", "dataset", RatZero)>>)}

\* The clock override: unset, empty, or a fixed instant.
Environs == {EnvUnset, EnvSet(""), EnvSet("1970-01-01T00:00:00Z")}

\* One result object and one provenance, written to the output paths while
\* the clock runs, and read back.
InitWrite ==
    /\ result_obj \in ResultObjects
    /\ extra_run_meta \in ExtraRunMetas
    /\ environ \in Environs
    /\ clock = 0
    /\ \E old \in OldFiles :
           fs = [dirs |-> {"."},
                 files |-> [path \in OutputPaths |->
                               IF path = "r2.json" THEN old ELSE NoFile]]
    /\ writes = <<>>
    /\ loaded = [path |-> "", written |-> 0, outcome |-> Raise(NoError)]
    /\ descriptor = <<>>
    /\ cache = <<>>
    /\ cmd = <<>>
    /\ fetch_count = 0
    /\ returned_ok = FALSE
    /\ NoRun
    /\ NoSample
    /\ alpha = <<1, 1>>

NextWrite == WriteBenchmarkJson \/ LoadResult \/ Tick

SpecWrite == InitWrite /\ [][NextWrite]_vars

(***************************************************************************)
(* datasets/fetching: fetcher.py, cli.py, and the dataset resolution of    *)
(* the benchmark command (cli.py)                                          *)
(*                                                                         *)
(* A URL is the sequence of its segments, a path below the dataset         *)
(* directory the sequence of its names.  The content of a file is a name   *)
(* ("A", "B"); a snapshot directory is kept as one entry whose content     *)
(* tells what it holds.  The cache is the dataset version directory        *)
(* {cache}/datasets/{name}/{version}: whether it exists, its manifest.json,*)
(* its files and whether dataset.json and splits.json were built.          *)
(***************************************************************************)
Sha256(content) == "sha256:" \o content

NoSha == "None"

Artifact(url, sha256, type) ==
    [url |-> url, sha256 |-> sha256, type |-> type, target_subdir |-> "raw"]

DatasetDescriptor(name, version, artifacts, loader_hint) ==
    [name |-> name, version |-> version, artifacts |-> artifacts,
     loader_hint |-> loader_hint]

ManifestArtifact(url, sha256, has_bytes, local_path) ==
    [url |-> url, sha256 |-> sha256, has_bytes |-> has_bytes, local_path |-> local_path]

NoManifest == [present |-> FALSE, artifacts |-> <<>>]
Manifest(artifacts) == [present |-> TRUE, artifacts |-> artifacts]

NoCache == [exists |-> FALSE, manifest |-> NoManifest, files |-> <<>>, built |-> FALSE]

\* An error of the fetcher: its class and what its message says.
FetchError(type, what) == OtherError(type, what)

\* The subclasses of DatasetFetchError.
DatasetFetchErrors ==
    {"DatasetNotFoundError", "HashMismatchError", "ArtifactDownloadError",
     "ArtifactExtractError", "ManifestError"}

IsDatasetFetchError(e) == e.type \in DatasetFetchErrors

\* (relative path) of a file artifact: target_subdir and the last segment of
\* the URL, "artifact.bin" when that is empty.
artifact_paths(artifact) ==
    LET filename == artifact.url[Len(artifact.url)]
    IN  <<artifact.target_subdir, IF filename = "" THEN "artifact.bin" ELSE filename>>

\* hf://datasets/<owner>/<name>@<revision>: the segments before the "@" are
\* the repo id, the one after it the revision.
parse_hf_snapshot_url(url) ==
    LET at == {i \in 1..Len(url) : url[i] = "@"}
        first == CHOOSE i \in at : \A j \in at : i <= j
    IN  IF Len(url) < 2 \/ url[1] # "hf:" \/ url[2] # "datasets"
        THEN Raise(FetchError("ValueError", "url"))
        ELSE IF at = {} THEN Raise(FetchError("ValueError", "url"))
        ELSE IF first < 5 THEN Raise(FetchError("ValueError", "url"))
        ELSE IF first = Len(url) \/ url[first + 1] = "" THEN Raise(FetchError("ValueError", "url"))
        ELSE Return([repo_id |-> SubSeq(url, 3, first - 1), revision |-> url[first + 1]])

\* One turn of the loop over the artifacts: the cache after it, and the
\* manifest entry when the artifact was accepted.
ArtifactRaised(e, c) ==
    [raised |-> TRUE, error |-> e, cache |-> c,
     listed |-> ManifestArtifact(<<>>, "", FALSE, <<>>)]

ArtifactListed(c, entry) ==
    [raised |-> FALSE, error |-> NoError, cache |-> c, listed |-> entry]

WithFile(c, path, content) == [c EXCEPT !.files = DictPut(c.files, path, content)]

\* An hf_snapshot artifact: the pinned revision is compared with the URL, the
\* target directory is made and the snapshot downloaded into it.  A failure
\* of the hub client is not caught.
FetchSnapshot(artifact, c, download) ==
    LET parsed == parse_hf_snapshot_url(artifact.url)
        rel    == <<artifact.target_subdir, parsed.value.repo_id[2]>>
    IN  IF artifact.sha256 = NoSha
        THEN ArtifactRaised(FetchError("ArtifactDownloadError", "revision missing"), c)
        ELSE IF parsed.raised
        THEN ArtifactRaised(FetchError("ArtifactDownloadError", "url"), c)
        ELSE IF parsed.value.revision # artifact.sha256
        THEN ArtifactRaised(FetchError("ArtifactDownloadError", "revision not pinned"), c)
        ELSE IF download = "fails"
        THEN ArtifactRaised(FetchError("ConnectionError", "hub"),
                            WithFile(c, rel, "empty directory"))
        ELSE ArtifactListed(WithFile(c, rel, IF download = "A" THEN "snapshot"
                                             ELSE "snapshot without images"),
                            ManifestArtifact(artifact.url, artifact.sha256, FALSE, rel))

\* A file that is in the cache with the expected hash is kept.
Cached(artifact, c, force) ==
    /\ DictHas(c.files, artifact_paths(artifact))
    /\ ~force
    /\ Sha256(DictGet(c.files, artifact_paths(artifact))) = artifact.sha256

\* A file artifact: kept when cached, else downloaded and its hash compared.
FetchFile(artifact, c, force, download) ==
    LET rel   == artifact_paths(artifact)
        entry == ManifestArtifact(artifact.url, artifact.sha256, TRUE, rel)
    IN  IF artifact.sha256 = NoSha
        THEN ArtifactRaised(FetchError("ArtifactDownloadError", "sha256 missing"), c)
        ELSE IF Cached(artifact, c, force) THEN ArtifactListed(c, entry)
        ELSE IF download = "fails"
        THEN ArtifactRaised(FetchError("ArtifactDownloadError", "download failed"), c)
        ELSE IF Sha256(download) # artifact.sha256
        THEN ArtifactRaised(FetchError("HashMismatchError", "sha256 mismatch"),
                            WithFile(c, rel, download))
        ELSE ArtifactListed(WithFile(c, rel, download), entry)

LoopDone(raised, error, c, listed) ==
    [raised |-> raised, error |-> error, cache |-> c, listed |-> listed]

\* for artifact in descriptor.artifacts
RECURSIVE FetchArtifacts(_, _, _, _, _, _)
FetchArtifacts(artifacts, k, c, listed, force, downloads) ==
    IF k > Len(artifacts) THEN LoopDone(FALSE, NoError, c, listed)
    ELSE LET turn == IF artifacts[k].type = "hf_snapshot"
                     THEN FetchSnapshot(artifacts[k], c, downloads[k])
                     ELSE FetchFile(artifacts[k], c, force, downloads[k])
         IN  IF turn.raised THEN LoopDone(TRUE, turn.error, turn.cache, listed)
             ELSE FetchArtifacts(artifacts, k + 1, turn.cache,
                                 Append(listed, turn.listed), force, downloads)

\* _postprocess_dataset: the FlowLearn layout is built from the snapshot, and
\* raises when the snapshot root or its images are missing.
postprocess_dataset(desc, c) ==
    IF desc.loader_hint # "flowlearn_hf_snapshot_v1" THEN Return(c)
    ELSE IF ~DictHas(c.files, <<"raw", "FlowLearn">>)
    THEN Raise(FetchError("ArtifactDownloadError", "layout"))
    ELSE IF DictGet(c.files, <<"raw", "FlowLearn">>) # "snapshot"
    THEN Raise(FetchError("ArtifactDownloadError", "layout"))
    ELSE Return([c EXCEPT !.built = TRUE])

Fetched(raised, error, c, wrote_manifest) ==
    [raised |-> raised, error |-> error, cache |-> c, wrote_manifest |-> wrote_manifest]

\* fetch_dataset(descriptor, cache_root, force, downloader); downloads[k] is
\* what the download of the k-th artifact yields in this call.
fetch_dataset(desc, c, force, downloads) ==
    LET removed  == IF force /\ c.exists THEN NoCache ELSE c
        made     == [removed EXCEPT !.exists = TRUE]
        loop     == FetchArtifacts(desc.artifacts, 1, made, <<>>, force, downloads)
        written  == [loop.cache EXCEPT !.manifest = Manifest(loop.listed)]
        prepared == postprocess_dataset(desc, written)
    IN  IF loop.raised THEN Fetched(TRUE, loop.error, loop.cache, FALSE)
        ELSE IF prepared.raised THEN Fetched(TRUE, prepared.error, written, TRUE)
        ELSE Fetched(FALSE, NoError, prepared.value, TRUE)

\* RemoteDatasetRegistry.get: the registry holds the descriptor.
RegistryGet(desc, name) ==
    IF name = desc.name THEN Return(desc)
    ELSE Raise(FetchError("DatasetNotFoundError", "name"))

HasSnapshot(desc) == \E k \in 1..Len(desc.artifacts) : desc.artifacts[k].type = "hf_snapshot"

\* A guard that lets every dataset through.
RefusedWithoutYesNever(desc, yes) == FALSE

\* Safety: no snapshot download unless confirmed.
RefusedWithoutYes(desc, yes) == HasSnapshot(desc) /\ ~yes

\* What a command did: its arguments, the cache before it, whether it called
\* fetch_dataset and with what outcome, and how it ended.
Command(name, ref, flags, before, fetched, call, outcome) ==
    [name |-> name, ref |-> ref, flags |-> flags, before |-> before,
     fetched |-> fetched, call |-> call, outcome |-> outcome]

Flags(force, yes, fetch_missing) ==
    [force |-> force, yes |-> yes, fetch_missing |-> fetch_missing]

NoCall == [force |-> FALSE, downloads |-> <<>>, result |-> Fetched(FALSE, NoError, NoCache, FALSE)]
Call(force, downloads, r) == [force |-> force, downloads |-> downloads, result |-> r]

\* What a download may yield: the one or the other content, or a failure.
Downloads(desc) == [1..Len(desc.artifacts) -> {"A", "B", "fails"}]

\* Calls of fetch_dataset in one behaviour.
MaxFetches == 2

\* The common part of the actions that call fetch_dataset.
Fetching(name, ref, flags, force, outcome(_)) ==
    /\ fetch_count < MaxFetches
    /\ \E downloads \in Downloads(descriptor) :
           \E r \in {fetch_dataset(descriptor, cache, force, downloads)} :
               /\ cache' = r.cache
               /\ cmd' = Command(name, ref, flags, cache, TRUE,
                                 Call(force, downloads, r), outcome(r))
               /\ returned_ok' = (returned_ok \/ ~r.raised)
    /\ fetch_count' = fetch_count + 1

NotFetching(name, ref, flags, outcome) ==
    /\ cmd' = Command(name, ref, flags, cache, FALSE, NoCall, outcome)
    /\ UNCHANGED <<cache, fetch_count, returned_ok>>

\* fetch_dataset called directly, as the tests of the fetcher call it.
FetchDataset ==
    /\ \E force \in BOOLEAN :
           LET outcome(r) == IF r.raised THEN "raised" ELSE "returned"
           IN  Fetching("fetch_dataset", descriptor.name, Flags(force, FALSE, FALSE),
                        force, outcome)
    /\ UNCHANGED <<descriptor, sampleVars, alpha, runVars, ioVars>>

\* How a command ends when fetch_dataset has returned or raised.
ExitAfterFetch(r, done) ==
    IF ~r.raised THEN done
    ELSE IF IsDatasetFetchError(r.error) THEN "exit 2"
    ELSE "traceback"

\* diagram2code dataset fetch NAME [--force] [--yes]
DatasetFetchCmd ==
    /\ \E ref \in {descriptor.name, "unknown"}, force \in BOOLEAN, yes \in BOOLEAN :
           LET flags == Flags(force, yes, FALSE)
               desc  == RegistryGet(descriptor, ref)
               outcome(r) == ExitAfterFetch(r, "exit 0")
           IN  IF desc.raised THEN NotFetching("dataset fetch", ref, flags, "exit 2")
               ELSE IF RefusedWithoutYes(desc.value, yes)
               THEN NotFetching("dataset fetch", ref, flags, "exit 2")
               ELSE Fetching("dataset fetch", ref, flags, force, outcome)
    /\ UNCHANGED <<descriptor, sampleVars, alpha, runVars, ioVars>>

\* diagram2code dataset path NAME
DatasetPathCmd ==
    /\ \E ref \in {descriptor.name, "unknown"} :
           LET flags == Flags(FALSE, FALSE, FALSE)
               desc  == RegistryGet(descriptor, ref)
           IN  IF desc.raised THEN NotFetching("dataset path", ref, flags, "exit 2")
               ELSE IF ~cache.exists THEN NotFetching("dataset path", ref, flags, "exit 2")
               ELSE NotFetching("dataset path", ref, flags, "exit 0")
    /\ UNCHANGED <<descriptor, sampleVars, alpha, runVars, ioVars>>

\* diagram2code benchmark --dataset NAME [--fetch-missing] [--yes], up to the
\* point where the dataset root is known: _resolve_registry_dataset_root and
\* the handler of its error in cmd_benchmark.  NAME is not a local path.
BenchmarkResolve ==
    /\ \E ref \in {descriptor.name, "unknown"}, fetch_missing \in BOOLEAN, yes \in BOOLEAN :
           LET flags == Flags(FALSE, yes, fetch_missing)
               desc  == RegistryGet(descriptor, ref)
               outcome(r) == ExitAfterFetch(r, "resolved")
           IN  IF desc.raised THEN NotFetching("benchmark", ref, flags, "exit 2")
               ELSE IF cache.exists THEN NotFetching("benchmark", ref, flags, "resolved")
               ELSE IF ~fetch_missing THEN NotFetching("benchmark", ref, flags, "exit 2")
               ELSE IF RefusedWithoutYes(desc.value, yes)
               THEN NotFetching("benchmark", ref, flags, "exit 2")
               ELSE Fetching("benchmark", ref, flags, FALSE, outcome)
    /\ UNCHANGED <<descriptor, sampleVars, alpha, runVars, ioVars>>

\* The descriptors: the two built-in ones (one file; the FlowLearn snapshot),
\* two files with different names, two files with the same name under
\* different URLs, a snapshot whose URL is not pinned to the recorded revision,
\* and a file without a hash.
FileUrl(segments) == <<"https:", "host">> \o segments

Descriptors ==
    {DatasetDescriptor("tiny_remote_v1", "1",
         <<Artifact(FileUrl(<<"README.md">>), Sha256("A"), "file")>>, "None"),
     DatasetDescriptor("flowlearn", "hf-35d7",
         <<Artifact(<<"hf:", "datasets", "jopan", "FlowLearn", "@", "35d7">>, "35d7",
                    "hf_snapshot")>>, "flowlearn_hf_snapshot_v1"),
     DatasetDescriptor("two_files", "1",
         <<Artifact(FileUrl(<<"images.zip">>), Sha256("A"), "zip"),
           Artifact(FileUrl(<<"graphs.zip">>), Sha256("B"), "zip")>>, "None"),
     DatasetDescriptor("same_name", "1",
         <<Artifact(FileUrl(<<"train", "data.bin">>), Sha256("A"), "file"),
           Artifact(FileUrl(<<"test", "data.bin">>), Sha256("B"), "file")>>, "None"),
     DatasetDescriptor("unpinned", "1",
         <<Artifact(<<"hf:", "datasets", "jopan", "FlowLearn", "@", "main">>, "35d7",
                    "hf_snapshot")>>, "flowlearn_hf_snapshot_v1"),
     DatasetDescriptor("no_hash", "1",
         <<Artifact(FileUrl(<<"data.bin">>), NoSha, "file")>>, "None")}

\* A registry dataset that is not installed, and the commands run on it.
InitFetch ==
    /\ descriptor \in Descriptors
    /\ cache = NoCache
    /\ cmd = Command("none", "", Flags(FALSE, FALSE, FALSE), NoCache, FALSE, NoCall, "none")
    /\ fetch_count = 0
    /\ returned_ok = FALSE
    /\ NoRun
    /\ NoSample
    /\ alpha = <<1, 1>>
    /\ result_obj = <<>>
    /\ extra_run_meta = <<>>
    /\ environ = <<>>
    /\ clock = 0
    /\ fs = <<>>
    /\ writes = <<>>
    /\ loaded = <<>>

NextFetch == FetchDataset \/ DatasetFetchCmd \/ DatasetPathCmd \/ BenchmarkResolve

SpecFetch == InitFetch /\ [][NextFetch]_vars

(***************************************************************************)
(* Vocabulary of the properties                                            *)
(***************************************************************************)
IdsOf(nodes) == {nodes[i].id : i \in 1..Len(nodes)}

UniqueIds(nodes) ==
    \A i, j \in 1..Len(nodes) : nodes[i].id = nodes[j].id => i = j

\* The box a node list gives to an id (a repeated id: the last entry).
BoxOf(nodes, id) ==
    nodes[CHOOSE i \in 1..Len(nodes) :
            /\ nodes[i].id = id
            /\ \A j \in 1..Len(nodes) : nodes[j].id = id => j <= i].bbox

Center2Of(nodes, id) ==
    <<2 * BoxOf(nodes, id)[1] + BoxOf(nodes, id)[3],
      2 * BoxOf(nodes, id)[2] + BoxOf(nodes, id)[4]>>

\* Four times the squared distance between the centers of p and g.
PairDist2(p, g) ==
    LET pcn == Center2Of(pred_nodes, p)
        gcn == Center2Of(gt_nodes, g)
    IN  (pcn[1] - gcn[1]) * (pcn[1] - gcn[1]) + (pcn[2] - gcn[2]) * (pcn[2] - gcn[2])

GtDiag2(g) ==
    BoxOf(gt_nodes, g)[3] * BoxOf(gt_nodes, g)[3]
    + BoxOf(gt_nodes, g)[4] * BoxOf(gt_nodes, g)[4]

\* dist(center(p), center(g)) <= a * sqrt(w_g^2 + h_g^2), a = a[1]/a[2] > 0
PairWithin(p, g, a) ==
    a[2] * a[2] * PairDist2(p, g) <= 4 * a[1] * a[1] * GtDiag2(g)

IsCandidatePair(p, g) ==
    /\ p \in IdsOf(pred_nodes)
    /\ g \in IdsOf(gt_nodes)
    /\ PairWithin(p, g, alpha)

Aligned(p, g) == p \in DOMAIN pred_to_gt /\ pred_to_gt[p] = g

AlignedGts == {pred_to_gt[p] : p \in DOMAIN pred_to_gt}

\* (distance, predicted id, ground-truth id) of (p, g) sorts strictly before
\* that of (q, h).
PairBefore(p, g, q, h) ==
    \/ PairDist2(p, g) < PairDist2(q, h)
    \/ PairDist2(p, g) = PairDist2(q, h) /\ StrLt(p, q)
    \/ PairDist2(p, g) = PairDist2(q, h) /\ p = q /\ StrLt(g, h)

\* The orderings of a list of pairwise different entries.
Orderings(s) == {t \in [1..Len(s) -> {s[i] : i \in 1..Len(s)}] :
                   {t[i] : i \in 1..Len(t)} = {s[i] : i \in 1..Len(s)}}

\* a <= b for rationals with positive denominators.
RatLeq(a, b) == a[1] * b[2] <= b[1] * a[2]

(***************************************************************************)
(* C1: the alignment returned by match_nodes_center_distance is an         *)
(* injective partial function from ids of pred_nodes to ids of gt_nodes:   *)
(* no ground-truth id is the image of two predicted ids.                   *)
(***************************************************************************)
C1_AlignmentInjective ==
    pc = "matched" =>
        /\ DOMAIN pred_to_gt \subseteq IdsOf(pred_nodes)
        /\ AlignedGts \subseteq IdsOf(gt_nodes)
        /\ \A p, q \in DOMAIN pred_to_gt :
               pred_to_gt[p] = pred_to_gt[q] => p = q

\* Two predicted nodes compete for one ground-truth node; one of them wins.
C1_Witness ==
    /\ pc = "matched"
    /\ gt_nodes = <<Node(<<1>>, BoxA)>>
    /\ pred_nodes = <<Node(<<1>>, BoxA), Node(<<2>>, BoxA)>>
    /\ alpha = <<1, 2>>
    /\ pred_to_gt = (<<1>> :> <<1>>)

(***************************************************************************)
(* C2: for alpha > 0 and node lists with unique ids, the outcome of        *)
(* match_nodes_center_distance is the same for every ordering of gt_nodes  *)
(* and of pred_nodes, also when candidate distances tie.                   *)
(***************************************************************************)
C2_OrderIndependent ==
    (/\ pc \in {"matched", "raised"}
     /\ AlphaPositive(alpha)
     /\ UniqueIds(gt_nodes)
     /\ UniqueIds(pred_nodes)) =>
        \A g \in Orderings(gt_nodes), p \in Orderings(pred_nodes) :
            LET r == match_nodes_center_distance(g, p, alpha)
            IN  /\ r.raised = (pc = "raised")
                /\ ~r.raised => r.value = pred_to_gt

\* Two predicted nodes at the same distance from the only ground-truth node;
\* the one with the smaller id is second in the list and still wins.
C2_Witness ==
    /\ pc = "matched"
    /\ gt_nodes = <<Node(<<2>>, BoxA)>>
    /\ pred_nodes = <<Node(<<2>>, BoxA), Node(<<1, 0>>, BoxA)>>
    /\ alpha = <<1, 4>>
    /\ pred_to_gt = (<<1, 0>> :> <<2>>)

(***************************************************************************)
(* C3: every aligned pair p -> g has                                       *)
(* dist(center(p), center(g)) <= alpha * sqrt(w_g^2 + h_g^2), the diagonal *)
(* being that of the ground-truth box.                                     *)
(***************************************************************************)
C3_WithinGtThreshold ==
    pc = "matched" =>
        \A p \in DOMAIN pred_to_gt :
            /\ p \in IdsOf(pred_nodes)
            /\ pred_to_gt[p] \in IdsOf(gt_nodes)
            /\ PairWithin(p, pred_to_gt[p], alpha)

\* At alpha = 1/2 the small box is matched to the large ground-truth box two
\* units away: the pair is inside the large box's threshold and outside the
\* small one's.
C3_Witness ==
    /\ pc = "matched"
    /\ gt_nodes = <<Node(<<1>>, BoxB)>>
    /\ pred_nodes = <<Node(<<2>>, BoxA)>>
    /\ alpha = <<1, 2>>
    /\ pred_to_gt = (<<2>> :> <<1>>)

(***************************************************************************)
(* C4: the alignment is the greedy one over candidates sorted by           *)
(* (distance, predicted id, ground-truth id): a within-threshold pair that *)
(* is not aligned has its predicted or its ground-truth node aligned       *)
(* through a pair that sorts strictly before it; the smallest candidate is *)
(* aligned; no within-threshold pair has both nodes unmatched.             *)
(***************************************************************************)
C4_GreedyBySortedDistance ==
    pc = "matched" =>
        /\ \A p \in IdsOf(pred_nodes), g \in IdsOf(gt_nodes) :
               (IsCandidatePair(p, g) /\ ~Aligned(p, g)) =>
                   \E q \in DOMAIN pred_to_gt :
                       /\ q = p \/ pred_to_gt[q] = g
                       /\ PairBefore(q, pred_to_gt[q], p, g)
        /\ \A p \in IdsOf(pred_nodes), g \in IdsOf(gt_nodes) :
               (/\ IsCandidatePair(p, g)
                /\ \A q \in IdsOf(pred_nodes), h \in IdsOf(gt_nodes) :
                       IsCandidatePair(q, h) => ~PairBefore(q, h, p, g))
               => Aligned(p, g)
        /\ \A p \in IdsOf(pred_nodes), g \in IdsOf(gt_nodes) :
               IsCandidatePair(p, g) =>
                   p \in DOMAIN pred_to_gt \/ g \in AlignedGts

\* Four candidates, two of them rejected because an earlier pair consumed one
\* of their nodes.
C4_Witness ==
    /\ pc = "matched"
    /\ gt_nodes = <<Node(<<1>>, BoxB), Node(<<2>>, BoxA)>>
    /\ pred_nodes = <<Node(<<1>>, BoxA), Node(<<2>>, BoxA)>>
    /\ alpha = <<1, 1>>
    /\ IsCandidatePair(<<2>>, <<2>>) /\ ~Aligned(<<2>>, <<2>>)
    /\ IsCandidatePair(<<1>>, <<1>>) /\ ~Aligned(<<1>>, <<1>>)
    /\ pred_to_gt = (<<1>> :> <<2>>) @@ (<<2>> :> <<1>>)

(***************************************************************************)
(* C5: for fixed node lists and 0 < alpha1 <= alpha2 the alignment at      *)
(* alpha1 has at most as many pairs as the alignment at alpha2.            *)
(***************************************************************************)
C5_MonotoneInAlpha ==
    pc = "matched" =>
        \A a1 \in MatchAlphas :
            (AlphaPositive(a1) /\ RatLeq(a1, alpha)) =>
                Cardinality(DOMAIN match_nodes_center_distance(
                                       gt_nodes, pred_nodes, a1).value)
                    <= Cardinality(DOMAIN pred_to_gt)

\* Two pairs at alpha = 1, only one of them at alpha = 1/4.
C5_Witness ==
    /\ pc = "matched"
    /\ alpha = <<1, 1>>
    /\ Cardinality(DOMAIN pred_to_gt) = 2
    /\ Cardinality(DOMAIN match_nodes_center_distance(
                           gt_nodes, pred_nodes, <<1, 4>>).value) = 1

(***************************************************************************)
(* C6: on node lists whose entries all carry id and bbox,                  *)
(* match_nodes_center_distance raises MatchingError iff alpha <= 0 (also   *)
(* on two empty lists); with alpha > 0 an empty gt_nodes or pred_nodes     *)
(* gives the empty alignment.                                              *)
(***************************************************************************)
C6_RaisesIffAlphaNotPositive ==
    (/\ pc /= "start"
     /\ NodesWellFormed(gt_nodes)
     /\ NodesWellFormed(pred_nodes)) =>
        /\ (pc = "raised" /\ err = "MatchingError") <=> alpha[1] <= 0
        /\ (alpha[1] > 0 /\ (gt_nodes = <<>> \/ pred_nodes = <<>>)) =>
               (pc = "matched" /\ err = "none" /\ pred_to_gt = EmptyMap)

\* alpha = 0 on two empty lists.
C6_Witness ==
    /\ pc = "raised"
    /\ err = "MatchingError"
    /\ alpha = <<0, 1>>
    /\ gt_nodes = <<>>
    /\ pred_nodes = <<>>

\* The (source, target) pairs of an edge list, whichever pair of keys is used.
EdgePairs(edges) == {<<edges[i].a, edges[i].b>> : i \in 1..Len(edges)}

EndpointsIn(nodes, edges) ==
    \A i \in 1..Len(edges) :
        edges[i].a \in IdsOf(nodes) /\ edges[i].b \in IdsOf(nodes)

\* A graph of the data model: unique node ids, edges between its own nodes.
IsGraph(nodes, edges) ==
    /\ NodesWellFormed(nodes)
    /\ UniqueIds(nodes)
    /\ \A i \in 1..Len(edges) :
           \/ {"from", "to"} \subseteq edges[i].keys
           \/ {"source", "target"} \subseteq edges[i].keys
    /\ EndpointsIn(nodes, edges)

Bijections(S, T) ==
    {f \in [S -> T] : /\ \A t \in T : \E x \in S : f[x] = t
                      /\ \A x, y \in S : f[x] = f[y] => x = y}

\* The predicted graph is the ground truth with its node ids renamed one to
\* one and the same bboxes.
PredIsRelabeledGt ==
    /\ IsGraph(gt_nodes, gt_edges)
    /\ IsGraph(pred_nodes, pred_edges)
    /\ \E f \in Bijections(IdsOf(pred_nodes), IdsOf(gt_nodes)) :
           /\ \A p \in IdsOf(pred_nodes) :
                  BoxOf(pred_nodes, p) = BoxOf(gt_nodes, f[p])
           /\ {<<f[pred_edges[i].a], f[pred_edges[i].b]>> :
                   i \in 1..Len(pred_edges)} = EdgePairs(gt_edges)

DistinctCenters(nodes) ==
    \A i, j \in 1..Len(nodes) :
        (2 * nodes[i].bbox[1] + nodes[i].bbox[3] = 2 * nodes[j].bbox[1] + nodes[j].bbox[3]
         /\ 2 * nodes[i].bbox[2] + nodes[i].bbox[4] = 2 * nodes[j].bbox[2] + nodes[j].bbox[4])
        => i = j

(***************************************************************************)
(* C7: project_pred_edges_to_gt(pred_edges, A) is the set of (A[s], A[t])  *)
(* over the predicted edges (s, t) with both s and t keys of A; an edge    *)
(* with an unmatched endpoint adds nothing, and the deduplicated edge list *)
(* projects to the same set.                                               *)
(***************************************************************************)
C7_ProjectionExact ==
    pc \in {"projected", "scored"} =>
        /\ projected_edges =
               {<<pred_to_gt[e[1]], pred_to_gt[e[2]]>> :
                    e \in {x \in EdgePairs(pred_edges) :
                              x[1] \in DOMAIN pred_to_gt /\ x[2] \in DOMAIN pred_to_gt}}
        /\ \A l \in SeqsUpTo(RunPredEdgeChoices, MaxEdges) :
               (/\ {l[i] : i \in 1..Len(l)} = {pred_edges[i] : i \in 1..Len(pred_edges)}
                /\ \A i, j \in 1..Len(l) : l[i] = l[j] => i = j)
               => project_pred_edges_to_gt(l, pred_to_gt).value = projected_edges

\* Two predicted edges: the first between matched nodes, the second with an
\* unmatched target; only the first is projected.
C7_Witness ==
    /\ pc = "projected"
    /\ Len(pred_edges) = 2
    /\ pred_edges[1].a \in DOMAIN pred_to_gt
    /\ pred_edges[1].b \in DOMAIN pred_to_gt
    /\ pred_edges[2].a \in DOMAIN pred_to_gt
    /\ pred_edges[2].b \notin DOMAIN pred_to_gt
    /\ projected_edges = {<<pred_to_gt[pred_edges[1].a], pred_to_gt[pred_edges[1].b]>>}

(***************************************************************************)
(* C8 as stated: if the predicted graph is the ground truth up to a        *)
(* one-to-one renaming of node ids with identical bboxes, then for any     *)
(* alpha > 0 node F1 = edge F1 = direction accuracy = 1.0 and exact_match  *)
(* is true.                                                                *)
(***************************************************************************)
C8_RelabeledIsPerfect ==
    (pc = "scored" /\ PredIsRelabeledGt) =>
        /\ metrics.node.f1 = RatOne
        /\ metrics.edge.f1 = RatOne
        /\ metrics.direction_accuracy = RatOne
        /\ metrics.exact_match

(***************************************************************************)
(* C8 amended: if moreover the centers of the ground-truth nodes are       *)
(* pairwise different, exact_match is true, node F1 is 1.0 when the graph  *)
(* has a node and edge F1 and direction accuracy are 1.0 when it has an    *)
(* edge; without nodes node F1 is 0.0, without edges edge F1 and direction *)
(* accuracy are 0.0.                                                       *)
(***************************************************************************)
C8_RelabeledDistinctCentersIsPerfect ==
    (pc = "scored" /\ PredIsRelabeledGt /\ DistinctCenters(gt_nodes)) =>
        /\ metrics.exact_match
        /\ metrics.node.f1 = IF gt_nodes /= <<>> THEN RatOne ELSE RatZero
        /\ metrics.edge.f1 = IF gt_edges /= <<>> THEN RatOne ELSE RatZero
        /\ metrics.direction_accuracy = IF gt_edges /= <<>> THEN RatOne ELSE RatZero

\* The two ids are swapped between prediction and ground truth, and alpha = 1
\* makes all four pairs candidates.
C8_Witness ==
    /\ pc = "scored"
    /\ gt_nodes = <<Node(<<1>>, BoxA), Node(<<2>>, BoxB)>>
    /\ pred_nodes = <<Node(<<2>>, BoxA), Node(<<1>>, BoxB)>>
    /\ gt_edges = <<EdgeSourceTarget(<<1>>, <<2>>)>>
    /\ pred_edges = <<EdgeFromTo(<<2>>, <<1>>)>>
    /\ alpha = <<1, 1>>
    /\ PredIsRelabeledGt
    /\ DistinctCenters(gt_nodes)
    /\ pred_to_gt = (<<1>> :> <<2>>) @@ (<<2>> :> <<1>>)
    /\ metrics.exact_match
    /\ metrics.edge.f1 = RatOne

(***************************************************************************)
(* C9: compute_exact_match is true iff the predicted and ground-truth      *)
(* node-id sets have the same cardinality, the alignment has as many pairs *)
(* as there are ground-truth node ids, the aligned ground-truth ids are    *)
(* all the ground-truth ids, and the projected edge set equals the         *)
(* ground-truth edge set.                                                  *)
(***************************************************************************)
C9_ExactMatchIff ==
    pc = "scored" =>
        (metrics.exact_match <=>
            /\ Cardinality(IdsOf(pred_nodes)) = Cardinality(IdsOf(gt_nodes))
            /\ Cardinality(DOMAIN pred_to_gt) = Cardinality(IdsOf(gt_nodes))
            /\ AlignedGts = IdsOf(gt_nodes)
            /\ projected_edges = EdgePairs(gt_edges))

\* All ground-truth nodes are covered and the edges agree, but the prediction
\* has one node more: not an exact match.
C9_Witness ==
    /\ pc = "scored"
    /\ Cardinality(IdsOf(pred_nodes)) = 2
    /\ Cardinality(IdsOf(gt_nodes)) = 1
    /\ AlignedGts = IdsOf(gt_nodes)
    /\ projected_edges = EdgePairs(gt_edges)
    /\ ~metrics.exact_match

(***************************************************************************)
(* C10: compute_direction_accuracy is correct/denom, denom the number of   *)
(* projected edges (a, b) with (a, b) or (b, a) a ground-truth edge and    *)
(* correct the number of those with (a, b) a ground-truth edge; other      *)
(* projected edges count in neither; the value is 0.0 when denom is 0.     *)
(***************************************************************************)
C10_DirectionAccuracy ==
    pc = "scored" =>
        LET gt      == EdgePairs(gt_edges)
            denom   == Cardinality({e \in projected_edges :
                                       e \in gt \/ <<e[2], e[1]>> \in gt})
            correct == Cardinality({e \in projected_edges : e \in gt})
        IN  IF denom = 0
            THEN metrics.direction_accuracy = <<0, 1>>
            ELSE /\ metrics.direction_accuracy[2] > 0
                 /\ metrics.direction_accuracy[1] * denom
                        = correct * metrics.direction_accuracy[2]

\* One projected edge is reversed, one has no ground-truth counterpart in
\* either direction: 0 of 1.
C10_Witness ==
    /\ pc = "scored"
    /\ EdgePairs(gt_edges) = {<<(<<1>>), (<<2>>)>>}
    /\ Cardinality(projected_edges) = 2
    /\ <<(<<2>>), (<<1>>)>> \in projected_edges
    /\ metrics.direction_accuracy = <<0, 1>>

\* m is the zero-safe precision/recall/F1 of tp true positives among pred_n
\* predicted and gt_n ground-truth items; every denominator is positive.
IsZeroSafePRF1(m, tp, pred_n, gt_n) ==
    LET P == m.precision
        R == m.recall
        F == m.f1
    IN  /\ P[2] > 0 /\ R[2] > 0 /\ F[2] > 0
        /\ IF pred_n = 0 THEN P = <<0, 1>> ELSE P[1] * pred_n = tp * P[2]
        /\ IF gt_n = 0 THEN R = <<0, 1>> ELSE R[1] * gt_n = tp * R[2]
        /\ IF P[1] = 0 /\ R[1] = 0
           THEN F = <<0, 1>>
           ELSE F[1] * (P[1] * R[2] + R[1] * P[2]) = 2 * P[1] * R[1] * F[2]

(***************************************************************************)
(* C11: the node metrics of a scored sample are the zero-safe PRF1 with    *)
(* tp the size of the alignment: precision tp/|pred_nodes| (0 without      *)
(* predicted nodes), recall tp/|gt_nodes| (0 without ground-truth nodes),  *)
(* f1 = 2PR/(P+R), 0 when both are 0; no denominator is zero.              *)
(***************************************************************************)
C11_NodeMetrics ==
    pc = "scored" =>
        IsZeroSafePRF1(metrics.node,
                       Cardinality({p \in IdsOf(pred_nodes) :
                                       \E g \in IdsOf(gt_nodes) : Aligned(p, g)}),
                       Len(pred_nodes), Len(gt_nodes))

\* One of two predicted nodes is aligned and there is one ground-truth
\* node: precision 1/2, recall 1, f1 2/3.
C11_Witness ==
    /\ pc = "scored"
    /\ Len(pred_nodes) = 2
    /\ Len(gt_nodes) = 1
    /\ metrics.node = [precision |-> <<1, 2>>, recall |-> <<1, 1>>, f1 |-> <<2, 3>>]

(***************************************************************************)
(* C12: the edge metrics of a scored sample are the zero-safe PRF1 with    *)
(* tp = |projected /\ gt|, pred_n = |projected| and gt_n = |gt|, gt being  *)
(* the ground-truth edges as a set of ordered pairs: a duplicated edge     *)
(* counts once and a reversed edge is a different edge.                    *)
(***************************************************************************)
C12_EdgeMetrics ==
    pc = "scored" =>
        IsZeroSafePRF1(metrics.edge,
                       Cardinality(projected_edges \cap EdgePairs(gt_edges)),
                       Cardinality(projected_edges),
                       Cardinality(EdgePairs(gt_edges)))

\* The ground-truth edge (1, 2) is listed twice and the only projected edge
\* is its reverse (2, 1): gt_n is 1, tp is 0.
C12_Witness ==
    /\ pc = "scored"
    /\ Len(gt_edges) = 2
    /\ EdgePairs(gt_edges) = {<<(<<1>>), (<<2>>)>>}
    /\ projected_edges = {<<(<<2>>), (<<1>>)>>}
    /\ metrics.edge = [precision |-> <<0, 1>>, recall |-> <<0, 1>>, f1 |-> <<0, 1>>]

RECURSIVE DenProd(_)
DenProd(xs) == IF xs = <<>> THEN 1 ELSE Head(xs)[2] * DenProd(Tail(xs))

\* The sum of the rationals xs, multiplied by D, a multiple of every
\* denominator.
RECURSIVE ScaledSum(_, _)
ScaledSum(xs, D) ==
    IF xs = <<>> THEN 0
    ELSE Head(xs)[1] * (D \div Head(xs)[2]) + ScaledSum(Tail(xs), D)

\* v is the arithmetic mean of the non-empty list xs of rationals.
IsMeanOf(v, xs) ==
    /\ v # None
    /\ v[2] > 0
    /\ v[1] * Len(xs) * DenProd(xs) = v[2] * ScaledSum(xs, DenProd(xs))

\* The values of field f of the metrics of the samples at the indices I, in
\* the order of the list.
RECURSIVE ValuesAt(_, _, _, _)
ValuesAt(samples, f(_), I, k) ==
    IF k > Len(samples) THEN <<>>
    ELSE (IF k \in I THEN <<f(samples[k].metrics)>> ELSE <<>>)
             \o ValuesAt(samples, f, I, k + 1)

(***************************************************************************)
(* C13: every field of the aggregate is the arithmetic mean, over all the  *)
(* samples of the result, of that field of the per-sample metrics;         *)
(* exact_match_rate is the mean of exact_match as 0/1; runtime_mean_s is   *)
(* the mean over the samples that reported a runtime only, and None when   *)
(* no sample reported one.                                                 *)
(***************************************************************************)
C13_AggregateIsMean ==
    (run_pc = "returned" /\ result.samples # <<>>) =>
        LET ss       == result.samples
            agg      == result.aggregate
            All      == 1..Len(ss)
            Timed    == {i \in All : ss[i].metrics.runtime_s # None}
            np(m)    == m.node.precision
            nr(m)    == m.node.recall
            nf(m)    == m.node.f1
            ep(m)    == m.edge.precision
            er(m)    == m.edge.recall
            ef(m)    == m.edge.f1
            da(m)    == m.direction_accuracy
            rt(m)    == m.runtime_s
        IN  /\ IsMeanOf(agg.node.precision, ValuesAt(ss, np, All, 1))
            /\ IsMeanOf(agg.node.recall, ValuesAt(ss, nr, All, 1))
            /\ IsMeanOf(agg.node.f1, ValuesAt(ss, nf, All, 1))
            /\ IsMeanOf(agg.edge.precision, ValuesAt(ss, ep, All, 1))
            /\ IsMeanOf(agg.edge.recall, ValuesAt(ss, er, All, 1))
            /\ IsMeanOf(agg.edge.f1, ValuesAt(ss, ef, All, 1))
            /\ IsMeanOf(agg.direction_accuracy, ValuesAt(ss, da, All, 1))
            /\ agg.exact_match_rate[2] > 0
            /\ agg.exact_match_rate[1] * Len(ss)
                   = agg.exact_match_rate[2]
                         * Cardinality({i \in All : ss[i].metrics.exact_match})
            /\ IF Timed = {}
               THEN agg.runtime_mean_s = None
               ELSE IsMeanOf(agg.runtime_mean_s, ValuesAt(ss, rt, Timed, 1))

\* Three samples, the first without runtime, the others with 1/2 s and
\* 3/2 s: the runtime mean is 1 s over two samples, the other means are
\* over three (exact_match_rate 2/3, node precision 2/3).
C13_Witness ==
    /\ run_pc = "returned"
    /\ Len(result.samples) = 3
    /\ result.samples[1].metrics.runtime_s = None
    /\ result.samples[2].metrics.runtime_s = <<1, 2>>
    /\ result.samples[3].metrics.runtime_s = <<3, 2>>
    /\ result.aggregate.runtime_mean_s = <<1, 1>>
    /\ result.aggregate.exact_match_rate = <<2, 3>>
    /\ result.aggregate.node.precision = <<2, 3>>

(***************************************************************************)
(* Vocabulary of the dataset properties                                    *)
(***************************************************************************)
Range(xs) == {xs[i] : i \in 1..Len(xs)}

\* The sample ids the image files and the graph files of the directory
\* stand for.
ImageIds ==
    {f.stem : f \in {g \in disk.images :
                        g.is_file /\ Lower(g.suffix) \in ALLOWED_IMAGE_EXTS}}
GraphIds == {f.stem : f \in {g \in disk.graphs : g.is_file /\ g.suffix = ".json"}}

\* dataset.json is there and is a JSON object.
MetadataIsObject == "dataset.json" \in disk.present /\ disk.metadata.json = "object"

\* listed is the sorted list of the ids of S, cut after the first n.
IsSortedPrefix(listed, S, n) ==
    /\ Len(listed) = (IF Cardinality(S) < n THEN Cardinality(S) ELSE n)
    /\ Range(listed) \subseteq S
    /\ \A i, j \in 1..Len(listed) : i < j => StrLt(listed[i], listed[j])
    /\ \A x \in S \ Range(listed) : \A i \in 1..Len(listed) : StrLt(listed[i], x)

\* dataset.json declares splits: an object mapping split names to lists of
\* ids.
SplitsDeclared ==
    /\ MetadataIsObject
    /\ disk.metadata.splits.type = "object"
    /\ \A i \in 1..Len(disk.metadata.splits.items) :
           disk.metadata.splits.items[i].ids.type = "list"

\* The positions <<split, index>> of the splits map and the id at each.
SplitPositions ==
    UNION {{<<i, j>> : j \in 1..Len(disk.metadata.splits.items[i].ids.items)} :
              i \in 1..Len(disk.metadata.splits.items)}
SplitIdAt(p) == disk.metadata.splits.items[p[1]].ids.items[p[2]]

UnknownSplitIds == {SplitIdAt(p) : p \in SplitPositions} \ ImageIds
RepeatedSplitIds ==
    {SplitIdAt(p) : p \in {q \in SplitPositions :
                              \E r \in SplitPositions : r # q /\ SplitIdAt(r) = SplitIdAt(q)}}

(***************************************************************************)
(* C16: load_dataset fails with DatasetError and with no other exception,  *)
(* for every violation of the dataset contract: a missing dataset.json,    *)
(* images or graphs, a dataset.json that is not JSON or not an object, an  *)
(* id mismatch, bad splits, a malformed graph file; the error names the    *)
(* violated invariant and the offending path or id.                        *)
(***************************************************************************)
MalformedGraph(content) ==
    \/ content.json # "object"
    \/ ~({"nodes", "edges"} \subseteq content.keys)
    \/ content.nodes.type # "list"
    \/ content.edges.type # "list"
    \/ \E i \in 1..Len(content.nodes.items) :
           "id" \notin content.nodes.items[i].keys \/ content.nodes.items[i].id = <<>>
    \/ \E i \in 1..Len(content.edges.items) :
           LET e == content.edges.items[i]
           IN  ~(\/ {"source", "target"} \subseteq e.keys /\ e.a # <<>> /\ e.b # <<>>
                 \/ {"from", "to"} \subseteq e.keys /\ e.a # <<>> /\ e.b # <<>>)

SomeGraphMalformed ==
    \E g \in disk.graphs : g.is_file /\ g.suffix = ".json" /\ MalformedGraph(g.content)

BadSplits ==
    /\ MetadataIsObject
    /\ disk.metadata.splits.type \notin {"absent", "null"}
    /\ \/ ~SplitsDeclared
       \/ UnknownSplitIds # {}
       \/ RepeatedSplitIds # {}
       \/ ImageIds \ {SplitIdAt(p) : p \in SplitPositions} # {}

ContractViolated ==
    \/ ~(Paths \subseteq disk.present)
    \/ ~MetadataIsObject
    \/ ImageIds # GraphIds
    \/ BadSplits
    \/ SomeGraphMalformed

C16_OnlyDatasetError ==
    (loader = "load_dataset" /\ run_pc # "start") =>
        /\ ContractViolated => run_pc = "raised"
        /\ run_pc = "raised" =>
               /\ run_err.type = "DatasetError"
               /\ run_err.kind # ""
               /\ run_err.what # "" \/ run_err.ids # <<>> \/ run_err.more_ids # <<>>

(***************************************************************************)
(* C17: load_dataset succeeds only if the ids of the image files, whatever *)
(* their extension, are the ids of the graph files; otherwise it raises    *)
(* DatasetError listing the sorted ids with an image and no graph and the  *)
(* sorted ids with a graph and no image, at most 20 of each.               *)
(***************************************************************************)
C17_PairsMustMatch ==
    loader = "load_dataset" =>
        /\ run_pc = "loaded" => ImageIds = GraphIds
        /\ (run_pc = "raised" /\ Paths \subseteq disk.present /\ MetadataIsObject
                /\ ImageIds # GraphIds) =>
               /\ run_err.type = "DatasetError"
               /\ run_err.kind = "Image/graph ID mismatch"
               /\ IsSortedPrefix(run_err.ids, ImageIds \ GraphIds, 20)
               /\ IsSortedPrefix(run_err.more_ids, GraphIds \ ImageIds, 20)

\* 21 images without graph and 20 graphs without image: 20 ids are listed on
\* each side, "1", "10", "11", ... first.
C17_Witness ==
    /\ loader = "load_dataset"
    /\ run_pc = "raised"
    /\ Cardinality(ImageIds \ GraphIds) = 21
    /\ Cardinality(GraphIds \ ImageIds) = 20
    /\ Len(run_err.ids) = 20
    /\ Len(run_err.more_ids) = 20
    /\ SubSeq(run_err.ids, 1, 3) = <<(<<1>>), (<<1, 0>>), (<<1, 1>>)>>

(***************************************************************************)
(* C18: when dataset.json declares splits, load_dataset raises             *)
(* DatasetError if a split lists an id that is not an id of the directory, *)
(* or if an id occurs more than once in the splits map, in two splits or   *)
(* twice in one split.                                                     *)
(***************************************************************************)
C18_SplitsRejected ==
    (loader = "load_dataset" /\ run_pc # "start" /\ SplitsDeclared
         /\ (UnknownSplitIds # {} \/ RepeatedSplitIds # {})) =>
        /\ run_pc = "raised"
        /\ run_err.type = "DatasetError"
        /\ (Paths \subseteq disk.present /\ ImageIds = GraphIds) =>
               \/ /\ run_err.kind = "references unknown sample_id"
                  /\ Range(run_err.ids) \subseteq UnknownSplitIds
                  /\ Len(run_err.ids) = 1
               \/ /\ run_err.kind = "Duplicate sample_id across splits"
                  /\ Range(run_err.ids) \subseteq RepeatedSplitIds
                  /\ Len(run_err.ids) = 1

\* One split lists the id "2" twice and the other split lists "1".
C18_Witness ==
    /\ loader = "load_dataset"
    /\ run_pc = "raised"
    /\ SplitsDeclared
    /\ UnknownSplitIds = {}
    /\ Len(disk.metadata.splits.items) = 2
    /\ disk.metadata.splits.items[1].ids.items = <<(<<1>>)>>
    /\ disk.metadata.splits.items[2].ids.items = <<(<<2>>), (<<2>>)>>
    /\ run_err.kind = "Duplicate sample_id across splits"
    /\ run_err.ids = <<(<<2>>)>>

(***************************************************************************)
(* C19: after every successful load the splits partition the samples:      *)
(* each sample id is listed in exactly one split, the split field of the   *)
(* sample names that split, and the samples of the declared splits         *)
(* together are all the samples; an id assigned to no split makes the load *)
(* fail; without declared splits the only split is "all" and it holds      *)
(* every id.                                                               *)
(***************************************************************************)
C19_SplitsPartitionSamples ==
    /\ run_pc = "loaded" =>
           LET sp        == dataset.metadata.splits
               SampleIds == {dataset.samples[i].sample_id : i \in 1..Len(dataset.samples)}
               Listing(x) == {<<k, j>> \in UNION {{<<k, j>> : j \in 1..Len(sp[k].ids)} :
                                                     k \in 1..Len(sp)} : sp[k].ids[j] = x}
           IN  /\ \A i \in 1..Len(dataset.samples) :
                      /\ Cardinality(Listing(dataset.samples[i].sample_id)) = 1
                      /\ \A p \in Listing(dataset.samples[i].sample_id) :
                             sp[p[1]].name = dataset.samples[i].split
               /\ UNION {Range([i \in 1..Len(Dataset_samples(dataset, n)) |->
                                   Dataset_samples(dataset, n)[i].sample_id]) :
                            n \in Dataset_splits(dataset)} = SampleIds
               /\ disk.metadata.splits.type \in {"absent", "null"} =>
                      /\ Dataset_splits(dataset) = {"all"}
                      /\ Len(sp) = 1
                      /\ Range(sp[1].ids) = SampleIds
    /\ (run_pc # "start" /\ MetadataIsObject /\ disk.metadata.splits.type = "object"
            /\ (ImageIds \cap GraphIds) \ {SplitIdAt(p) : p \in SplitPositions} # {}) =>
           run_pc = "raised"

(***************************************************************************)
(* C20: load_dataset rejects with DatasetError a dataset.json without      *)
(* schema_version or with a schema_version that is not in the allow-list   *)
(* of supported versions; only the supported versions load.                *)
(***************************************************************************)
C20_OnlySupportedVersionsLoad ==
    (loader = "load_dataset" /\ run_pc # "start" /\ MetadataIsObject
         /\ (\/ ~disk.metadata.schema_version.present
             \/ disk.metadata.schema_version.value \notin SUPPORTED_DATASET_SCHEMA_VERSIONS)) =>
        /\ run_pc = "raised"
        /\ run_err.type = "DatasetError"

(***************************************************************************)
(* C14: run_benchmark never skips a sample.  The results collected are     *)
(* always those of the first samples of the selected split, in dataset     *)
(* order and none left out; what is returned holds one result per sample   *)
(* of the split, the first limit of them when limit is given; when the     *)
(* run raises, the error is that of the first sample that fails and        *)
(* nothing is returned.                                                    *)
(***************************************************************************)
Loaded == ~load_dataset(disk).raised

Selected == Dataset_samples(load_dataset(disk).value, split.name)

Outcome(k) ==
    evaluate_sample(GraphContent(disk.graphs, Selected[k].sample_id),
                    predictor[Selected[k].sample_id], alpha)

Wanted ==
    IF ~limit.given THEN Len(Selected)
    ELSE IF limit.value <= 0 THEN 0
    ELSE IF limit.value < Len(Selected) THEN limit.value
    ELSE Len(Selected)

C14_NeverSkipsASample ==
    /\ (run_pc \in {"looping", "collected", "returned", "raised"} /\ Loaded) =>
           /\ Len(per_sample) <= Wanted
           /\ count = Len(per_sample)
           /\ \A k \in 1..Len(per_sample) :
                  /\ ~Outcome(k).raised
                  /\ per_sample[k] = SampleResult(Selected[k].image_path, Outcome(k).value)
    /\ run_pc = "returned" =>
           /\ result.samples = per_sample
           /\ Len(result.samples) = Wanted
    /\ (run_pc = "raised" /\ Loaded) =>
           /\ result = None
           /\ Len(per_sample) < Wanted
           /\ Outcome(Len(per_sample) + 1).raised
           /\ run_err = Outcome(Len(per_sample) + 1).error

\* The second sample fails after the first was scored: the run raises and
\* returns nothing.
C14_Witness ==
    /\ run_pc = "raised"
    /\ Loaded
    /\ Len(per_sample) = 1
    /\ Len(Selected) = 2
    /\ result = None

(***************************************************************************)
(* C15: a malformed graph file makes load_dataset raise DatasetError, so   *)
(* that run_benchmark stops before the predictor is invoked on any sample. *)
(***************************************************************************)
C15_MalformedGraphAbortsAtLoad ==
    (run_pc # "start" /\ SomeGraphMalformed) =>
        /\ run_pc = "raised"
        /\ run_err.type = "DatasetError"
        /\ predictor_calls = <<>>

(***************************************************************************)
(* C21: a ground-truth graph whose edges are written with the legacy keys  *)
(* "from" and "to" is accepted on read, by the graph validation of the     *)
(* dataset package and by the runner, and is scored as the same graph      *)
(* written with "source" and "target".                                     *)
(***************************************************************************)
\* A well-formed graph file, all of whose edges use the legacy keys.
LegacyGraph(content) ==
    /\ content.json = "object"
    /\ {"nodes", "edges"} \subseteq content.keys
    /\ content.nodes.type = "list"
    /\ content.edges.type = "list"
    /\ FirstBadNode(content.nodes.items) = 0
    /\ content.edges.items # <<>>
    /\ \A i \in 1..Len(content.edges.items) :
           LET e == content.edges.items[i]
           IN  e.keys = {"from", "to"} /\ e.a # <<>> /\ e.b # <<>>

\* The same graph with every edge written with "source" and "target".
Canonical(content) ==
    [content EXCEPT !.edges.items =
        [i \in 1..Len(content.edges.items) |->
            EdgeSourceTarget(content.edges.items[i].a, content.edges.items[i].b)]]

LegacyScoredAsCanonical ==
    \A g \in disk.graphs : LegacyGraph(g.content) =>
        \A sid \in DOMAIN predictor :
            evaluate_sample(g.content, predictor[sid], alpha)
                = evaluate_sample(Canonical(g.content), predictor[sid], alpha)

C21_LegacyEdgesAccepted ==
    /\ \A g \in disk.graphs : LegacyGraph(g.content) =>
           /\ ~load_and_validate_graph(g.content).raised
           /\ ~GraphCheck(g.content).raised
    /\ LegacyScoredAsCanonical

(***************************************************************************)
(* C22: a predicted edge without an endpoint field is never scored: the    *)
(* predictor adapter and the edge projector raise a typed error that       *)
(* identifies the offending edge, and the sample yields no metrics.        *)
(***************************************************************************)
\* The first edge of the prediction that lacks an endpoint field, for the
\* adapter ("source" or "from", "target" or "to") and for a PredGraph given
\* to the projector ("from", "to"); 0 when there is none.
FirstOffendingEdge(p) ==
    LET bad == {i \in 1..Len(p.edges) :
                   IF p.adapter THEN MissingEndpoints(p.edges[i])
                   ELSE ~({"from", "to"} \subseteq p.edges[i].keys)}
    IN  IF bad = {} THEN 0 ELSE CHOOSE i \in bad : \A j \in bad : i <= j

\* The sample reaches the projection: its graph file is well formed and the
\* predictor returns nodes that can be matched.
ReachesProjection(k) ==
    /\ ~MalformedGraph(GraphContent(disk.graphs, Selected[k].sample_id))
    /\ ~predictor[Selected[k].sample_id].raised
    /\ NodesWellFormed(predictor[Selected[k].sample_id].nodes)
    /\ ~AlphaRejected(alpha)

OffendingSample(k) ==
    ReachesProjection(k) /\ FirstOffendingEdge(predictor[Selected[k].sample_id]) # 0

EdgeErrorIdentifiesEdge(k) ==
    LET p == predictor[Selected[k].sample_id]
    IN  /\ run_err.type \in {"ValueError", "MatchingError"}
        /\ run_err.what = "edge"
        /\ run_err.ids = <<p.edges[FirstOffendingEdge(p)].a, p.edges[FirstOffendingEdge(p)].b>>

OffendingEdgeNeverScored ==
    (run_pc \in {"looping", "collected", "returned", "raised"} /\ Loaded) =>
        /\ \A k \in 1..Len(per_sample) : ~OffendingSample(k)
        /\ (run_pc = "raised" /\ OffendingSample(Len(per_sample) + 1)) =>
               /\ run_err.type \in {"ValueError", "MatchingError"}
               /\ result = None

C22_OffendingEdgeRaisesTypedError ==
    /\ OffendingEdgeNeverScored
    /\ (run_pc = "raised" /\ Loaded /\ OffendingSample(Len(per_sample) + 1)) =>
           EdgeErrorIdentifiesEdge(Len(per_sample) + 1)

(***************************************************************************)
(* C30: with the alignment and the projected edges the runner computes,    *)
(* node and edge precision, recall and F1 and the direction accuracy of    *)
(* every sample lie in [0, 1], also when a node list repeats an id, the    *)
(* alignment is no larger than pred_nodes or gt_nodes, and every field of  *)
(* the aggregate of the run lies in [0, 1].                                *)
(***************************************************************************)
InUnit(x) == x[2] > 0 /\ 0 <= x[1] /\ x[1] <= x[2]

PRF1InUnit(m) == InUnit(m.precision) /\ InUnit(m.recall) /\ InUnit(m.f1)

SampleMetricsInUnit(m) ==
    PRF1InUnit(m.node) /\ PRF1InUnit(m.edge) /\ InUnit(m.direction_accuracy)

C30_MetricsInUnitInterval ==
    /\ pc = "scored" =>
           /\ SampleMetricsInUnit(metrics)
           /\ Cardinality(DOMAIN pred_to_gt) <= Len(pred_nodes)
           /\ Cardinality(DOMAIN pred_to_gt) <= Len(gt_nodes)
    /\ \A k \in 1..Len(per_sample) : SampleMetricsInUnit(per_sample[k].metrics)
    /\ run_pc = "returned" =>
           /\ SampleMetricsInUnit(result.aggregate)
           /\ InUnit(result.aggregate.exact_match_rate)

\* A run of two samples is returned; one has node lists that repeat an id,
\* the other has its only edge predicted the wrong way round.
C30_Witness ==
    /\ run_pc = "returned"
    /\ Len(result.samples) = 2
    /\ \E g \in disk.graphs :
           /\ Len(g.content.nodes.items) = 2
           /\ g.content.nodes.items[1].id = g.content.nodes.items[2].id
    /\ \E k \in 1..2 : result.samples[k].metrics.direction_accuracy = <<0, 1>>
                           /\ result.samples[k].metrics.edge.f1 = <<0, 1>>
    /\ result.aggregate.node.f1 # <<0, 1>>
    /\ result.aggregate.node.f1 # <<1, 1>>

(***************************************************************************)
(* Result files                                                            *)
(***************************************************************************)
\* The directory tree as the k-th call of write_benchmark_json left it.
FsAfter(k) == IF k < Len(writes) THEN writes[k + 1].before ELSE fs

\* The object a written text decodes to.
Decoded(text) == loads(text).value

DescribesValidResult(text) ==
    LET decoded == loads(text)
    IN  /\ ~decoded.raised
        /\ decoded.value.t = "dict"
        /\ Get(decoded.value, "schema_version") = PyStr(SCHEMA_VERSION)
        /\ Get(decoded.value, "num_samples").t = "int"
        /\ Get(decoded.value, "num_samples").n[1] >= 0

(***************************************************************************)
(* C23: write_benchmark_json validates the record before it creates a      *)
(* directory or writes a byte: a call that raises leaves the directory     *)
(* tree as it was, the target file neither created nor modified, and a     *)
(* call that returns has written a record with the supported               *)
(* schema_version and num_samples >= 0, so no file it wrote describes an   *)
(* invalid result.                                                         *)
(***************************************************************************)
C23_ValidatedBeforeAnyWrite ==
    \A k \in 1..Len(writes) :
        /\ writes[k].raised => FsAfter(k) = writes[k].before
        /\ ~writes[k].raised =>
               /\ writes[k].out.schema_version = PyStr(SCHEMA_VERSION)
               /\ writes[k].out.num_samples.n[1] >= 0
               /\ FsAfter(k).files[writes[k].path] = File(writes[k].text)
               /\ DescribesValidResult(writes[k].text)
               /\ \A path \in OutputPaths \ {writes[k].path} :
                      FsAfter(k).files[path] = writes[k].before.files[path]

\* A result with num_samples = -1 was to be written into a directory that did
\* not exist, and then over an existing file: validate raised both times, the
\* directory is still missing and the file still has its old text.
C23_Witness ==
    /\ Len(writes) = 2
    /\ writes[1].path = "results/r1.json"
    /\ writes[2].path = "r2.json"
    /\ \A k \in 1..2 : writes[k].raised /\ writes[k].error = OtherError("ValueError", "num_samples")
    /\ get_attr_any(result_obj, <<"num_samples">>) = PyInt(0 - 1)
    /\ "results" \notin fs.dirs
    /\ ~fs.files["results/r1.json"].exists
    /\ fs.files["r2.json"].exists
    /\ fs.files["r2.json"] = writes[1].before.files["r2.json"]

(***************************************************************************)
(* C24: every record written by write_benchmark_json, for any result       *)
(* object passed in, has the top-level keys schema_version, dataset,       *)
(* split, predictor, num_samples, metrics and run, and its metrics mapping *)
(* has the eight required keys.                                            *)
(***************************************************************************)
TopLevelKeys ==
    {"schema_version", "dataset", "split", "predictor", "num_samples", "metrics", "run"}

RequiredMetricKeys ==
    {"node_precision", "node_recall", "node_f1", "edge_precision", "edge_recall",
     "edge_f1", "direction_accuracy", "exact_match_rate"}

HasTopLevelKeys(text) == TopLevelKeys \subseteq DictKeys(Decoded(text).items)

HasRequiredMetricKeys(text) ==
    RequiredMetricKeys \subseteq DictKeys(Get(Decoded(text), "metrics").items)

\* The part that holds: the top-level keys are always there, and so are the
\* eight metric keys when the object has an aggregate with a node and an edge
\* block, as every result of run_benchmark has.
WrittenKeysOfRunResults ==
    \A k \in 1..Len(writes) :
        ~writes[k].raised =>
            /\ HasTopLevelKeys(writes[k].text)
            /\ (/\ get_attr_any(get_attr_any(result_obj, <<"aggregate">>), <<"node">>) # PyNone
                /\ get_attr_any(get_attr_any(result_obj, <<"aggregate">>), <<"edge">>) # PyNone)
                   => HasRequiredMetricKeys(writes[k].text)

C24_WrittenRecordHasRequiredKeys ==
    \A k \in 1..Len(writes) :
        ~writes[k].raised =>
            /\ HasTopLevelKeys(writes[k].text)
            /\ HasRequiredMetricKeys(writes[k].text)

(***************************************************************************)
(* C25: with the clock override set to a fixed value, two calls for the    *)
(* same result and provenance in the same environment write the same       *)
(* bytes, whatever the clock says; every text written has its keys sorted  *)
(* and ends with a newline.                                                *)
(***************************************************************************)
ClockOverridden == environ.set /\ environ.value # ""

RanksIncrease(items) ==
    LET ranks == [i \in 1..Len(items) |-> KeyRank(items[i].k)]
    IN  \A i \in 1..(Len(items) - 1) : ranks[i] < ranks[i + 1]

\* The keys of the object and of every object in it, in the order of the text.
KeysSorted(text) ==
    LET decoded == Decoded(text)
    IN  /\ RanksIncrease(decoded.items)
        /\ \A i \in 1..Len(decoded.items) :
               decoded.items[i].v.t = "dict" => RanksIncrease(decoded.items[i].v.items)

C25_DeterministicWithClockOverride ==
    /\ ClockOverridden =>
           \A i, j \in 1..Len(writes) :
               ~writes[i].raised /\ ~writes[j].raised => writes[i].text = writes[j].text
    /\ \A k \in 1..Len(writes) :
           ~writes[k].raised =>
               /\ KeysSorted(writes[k].text)
               /\ writes[k].text[Len(writes[k].text)] = Newline
               /\ \A i \in 1..(Len(writes[k].text) - 1) : writes[k].text[i] # Newline

\* Two runs a second or more apart wrote the two output files under the
\* override, with provenance in the run block: the files are equal.
C25_Witness ==
    /\ ClockOverridden
    /\ Len(writes) = 2
    /\ writes[1].clock < writes[2].clock
    /\ writes[1].path # writes[2].path
    /\ ~writes[1].raised /\ ~writes[2].raised
    /\ extra_run_meta # PyNone
    /\ fs.files["results/r1.json"].exists
    /\ fs.files["results/r1.json"] = fs.files["r2.json"]
    /\ Get(Get(Decoded(fs.files["r2.json"].text), "run"), "timestamp_utc")
           = PyStr(environ.value)

(***************************************************************************)
(* C26: round trip.  Every valid BenchmarkResult written as JSON is read   *)
(* back by load_result without an error, as a BenchmarkResult with the     *)
(* same metrics mapping and the same schema_version.                       *)
(***************************************************************************)
\* Equality of two dicts: the same keys with the same values, in any order.
DictEq(a, b) ==
    /\ a.t = "dict" /\ b.t = "dict"
    /\ DictKeys(a.items) = DictKeys(b.items)
    /\ \A k \in DictKeys(a.items) : DictGet(a.items, k) = DictGet(b.items, k)

RoundTrips(r) ==
    LET back == load_result(File(dumps(to_dict(r)) \o <<Newline>>))
    IN  /\ ~back.raised
        /\ DictEq(back.value.metrics, r.metrics)
        /\ back.value.schema_version = r.schema_version

KnownRef == cmd.ref = descriptor.name

WasMissing == ~cmd.before.exists

NothingDownloaded == ~cmd.fetched /\ cache = cmd.before

\* C27: the benchmark command calls fetch_dataset for a registry dataset
\* exactly when its directory is absent, --fetch-missing was given and the
\* descriptor has no hf_snapshot artifact or --yes was given; a missing
\* dataset is otherwise answered with exit code 2 and nothing is downloaded;
\* dataset fetch never fetches an hf_snapshot dataset without --yes.
C27_FetchOnlyWhenAllowed ==
    /\ (cmd.name = "benchmark" /\ KnownRef) =>
           /\ cmd.fetched <=> /\ WasMissing
                              /\ cmd.flags.fetch_missing
                              /\ (~HasSnapshot(descriptor) \/ cmd.flags.yes)
           /\ (WasMissing /\ ~cmd.fetched) =>
                  (cmd.outcome = "exit 2" /\ NothingDownloaded)
    /\ (cmd.name = "benchmark" /\ ~KnownRef) =>
           (cmd.outcome = "exit 2" /\ NothingDownloaded)
    /\ (cmd.name = "dataset fetch" /\ KnownRef /\ HasSnapshot(descriptor) /\ ~cmd.flags.yes) =>
           (cmd.outcome = "exit 2" /\ NothingDownloaded)

\* The benchmark command has fetched a missing snapshot dataset under --yes,
\* and the run goes on with it.
C27_Witness ==
    /\ cmd.name = "benchmark"
    /\ cmd.fetched
    /\ HasSnapshot(descriptor)
    /\ cmd.flags.yes
    /\ cmd.flags.fetch_missing
    /\ cmd.outcome = "resolved"
    /\ cache.manifest.present

\* The file entries of a manifest name files of the cache that have the
\* recorded hash.
ManifestMatchesDisk(c) ==
    \A k \in 1..Len(c.manifest.artifacts) :
        LET entry == c.manifest.artifacts[k]
        IN  entry.has_bytes =>
                /\ DictHas(c.files, entry.local_path)
                /\ Sha256(DictGet(c.files, entry.local_path)) = entry.sha256

\* A call that raised for a hash mismatch or a failed download wrote no
\* manifest, and a written manifest lists every artifact of the descriptor.
ManifestAfterAllArtifacts ==
    cmd.fetched =>
        /\ cmd.call.result.wrote_manifest =>
               Len(cache.manifest.artifacts) = Len(descriptor.artifacts)
        /\ cmd.call.result.error.what = "sha256 mismatch" =>
               /\ cmd.call.result.error.type = "HashMismatchError"
               /\ ~cmd.call.result.wrote_manifest
        /\ cmd.call.result.error.what = "download failed" =>
               /\ cmd.call.result.error.type = "ArtifactDownloadError"
               /\ ~cmd.call.result.wrote_manifest

\* C28: fetch_dataset writes the manifest only after every artifact is
\* downloaded or found cached and verified; a hash mismatch raises
\* HashMismatchError and a failed download ArtifactDownloadError, both without
\* writing a manifest; on normal return every file artifact of the manifest
\* is on disk with the hash recorded for it.
C28_ManifestDescribesVerifiedFiles ==
    /\ ManifestAfterAllArtifacts
    /\ (cmd.fetched /\ ~cmd.call.result.raised) =>
           (cache.manifest.present /\ ManifestMatchesDisk(cache))

\* C29: the dataset version directory exists only if some call of
\* fetch_dataset has returned and written the manifest; after a call that
\* raised, nothing is there that dataset path or the benchmark command takes
\* for an installed dataset.
C29_DirectoryOnlyAfterSuccessfulFetch ==
    /\ cache.exists => (returned_ok /\ cache.manifest.present)
    /\ (cmd.fetched /\ cmd.call.result.raised) => ~cache.exists
    /\ (cmd.name = "dataset path" /\ cmd.outcome = "exit 0") => returned_ok
    /\ (cmd.name = "benchmark" /\ cmd.outcome = "resolved") => returned_ok

====
